---- MODULE Spec2Model ----
(***************************************************************************)
(* Model of backend/app.py: the two TTL-guarded dataset indices (FP cycle  *)
(* index, school-centre index), their loaders, and the resolvers that      *)
(* query them.                                                             *)
(*                                                                         *)
(* Strings are sequences of one-character strings, so that strip(),        *)
(* lower(), upper(), split(), join(), "in" and sorted() are computed the   *)
(* way Python computes them.  A dict is a function whose DOMAIN is its key *)
(* set; the empty dict is <<>>.                                            *)
(***************************************************************************)
EXTENDS Integers, Sequences, FiniteSets, TLC

\* ------------------------------------------------------------------
\* Bounds of the model
\* ------------------------------------------------------------------
MaxRows == 2
MaxTicks == 1
MaxRequests == 2
MaxLen == 5

\* ------------------------------------------------------------------
\* Characters and strings
\* ------------------------------------------------------------------
UpperLetters == <<"A","B","C","D","E","F","G","H","I","J","K","L","M",
                  "N","O","P","Q","R","S","T","U","V","W","X","Y","Z">>
LowerLetters == <<"a","b","c","d","e","f","g","h","i","j","k","l","m",
                  "n","o","p","q","r","s","t","u","v","w","x","y","z">>

IsUpper(c) == \E i \in 1..26 : UpperLetters[i] = c
IsLower(c) == \E i \in 1..26 : LowerLetters[i] = c
UIdx(c) == CHOOSE i \in 1..26 : UpperLetters[i] = c
LIdx(c) == CHOOSE i \in 1..26 : LowerLetters[i] = c

\* Unicode code point, the key of Python's string comparison
Code(c) == IF c = " " THEN 32
           ELSE IF c = "\t" THEN 9
           ELSE IF IsUpper(c) THEN 64 + UIdx(c)
           ELSE IF IsLower(c) THEN 96 + LIdx(c)
           ELSE IF c = "Ó" THEN 211
           ELSE IF c = "ó" THEN 243
           ELSE 0

\* str.isspace(): the blank and the tab stand for Python's whitespace
IsSpace(c) == c \in {" ", "\t"}

LowerChar(c) == IF IsUpper(c) THEN LowerLetters[UIdx(c)]
                ELSE IF c = "Ó" THEN "ó" ELSE c
UpperChar(c) == IF IsLower(c) THEN UpperLetters[LIdx(c)]
                ELSE IF c = "ó" THEN "Ó" ELSE c

StrLower(s) == [i \in 1..Len(s) |-> LowerChar(s[i])]
StrUpper(s) == [i \in 1..Len(s) |-> UpperChar(s[i])]

\* Python's None, as it comes out of csv.DictReader for a short row
None == <<"<None>">>
OrEmpty(s) == IF s = None THEN <<>> ELSE s

RECURSIVE LStrip(_)
LStrip(s) == IF s # <<>> /\ IsSpace(Head(s)) THEN LStrip(Tail(s)) ELSE s

RECURSIVE RStrip(_)
RStrip(s) == IF s # <<>> /\ IsSpace(s[Len(s)])
             THEN RStrip(SubSeq(s, 1, Len(s) - 1)) ELSE s

Strip(s) == RStrip(LStrip(s))

\* str.split(): the maximal runs of non-whitespace characters
RECURSIVE TakeWord(_)
TakeWord(s) == IF s = <<>> \/ IsSpace(Head(s)) THEN <<>>
               ELSE <<Head(s)>> \o TakeWord(Tail(s))

RECURSIVE Split(_)
Split(s) == LET t == LStrip(s)
                w == TakeWord(t)
            IN  IF t = <<>> THEN <<>>
                ELSE <<w>> \o Split(SubSeq(t, Len(w) + 1, Len(t)))

\* " ".join(words)
RECURSIVE JoinSp(_)
JoinSp(ws) == IF ws = <<>> THEN <<>>
              ELSE IF Len(ws) = 1 THEN ws[1]
              ELSE ws[1] \o <<" ">> \o JoinSp(Tail(ws))

\* Norm that removes one leading whitespace character only
Norm_trim1(s) ==
    LET x == OrEmpty(s)
    IN  StrLower(IF x # <<>> /\ IsSpace(Head(x)) THEN Tail(x) ELSE x)

\* _norm(s) = " ".join((s or "").strip().lower().split())
Norm(s) == JoinSp(Split(StrLower(Strip(OrEmpty(s)))))

\* pat in s
Contains(s, pat) == \E i \in 1..(Len(s) - Len(pat) + 1) :
                        SubSeq(s, i, i + Len(pat) - 1) = pat

\* a < b for Python strings: lexicographic on code points
RECURSIVE StrLess(_, _)
StrLess(a, b) == IF b = <<>> THEN FALSE
                 ELSE IF a = <<>> THEN TRUE
                 ELSE IF Code(Head(a)) # Code(Head(b)) THEN Code(Head(a)) < Code(Head(b))
                 ELSE StrLess(Tail(a), Tail(b))

StrLeq(a, b) == a = b \/ StrLess(a, b)

\* sorted(S) for a set of strings
RECURSIVE SortedStrs(_)
SortedStrs(S) == IF S = {} THEN <<>>
                 ELSE LET m == CHOOSE x \in S : \A y \in S : StrLeq(x, y)
                      IN  <<m>> \o SortedStrs(S \ {m})

Range(f) == {f[i] : i \in DOMAIN f}

\* dict.get(k, default)
Get(d, k, default) == IF k \in DOMAIN d THEN d[k] ELSE default

\* ------------------------------------------------------------------
\* FP cycle index: constants
\* ------------------------------------------------------------------
INDEX_TTL_SECONDS == 24 * 3600
CENTROS_TTL_SECONDS == 7 * 24 * 3600

GVA_FP_CSV_URL_2025 == "alumnos-matriculados-fp_2025.csv"
GVA_FP_CSV_URL_2024 == "alumnos-matriculados-fp_2024.csv"
GVA_CENTROS_CSV_URL == "centros-docentes-de-la-comunitat-valenciana.csv"

FPNeeded == {"NOM_CICLO", "NOM_MUN", "NOM_GRADO"}
CentrosNeeded == {"denominacion", "direccion", "localidad"}

\* ------------------------------------------------------------------
\* FP cycle index: the row loop of _load_gva_fp_index
\* ------------------------------------------------------------------
RowCiclo(row) == Norm(Get(row, "NOM_CICLO", <<>>))
RowGrado(row) == Norm(Get(row, "NOM_GRADO", <<>>))
RowMun(row) == Strip(OrEmpty(Get(row, "NOM_MUN", <<>>)))

\* rows that pass "if not nom_ciclo or not nom_mun_raw: continue"
RowIndexed(row) == RowCiclo(row) # <<>> /\ RowMun(row) # <<>>

BuildCycleCityIndex(rows) ==
    LET used == {i \in DOMAIN rows : RowIndexed(rows[i])}
        keys == {<<RowCiclo(rows[i]), RowGrado(rows[i])>> : i \in used}
    IN  [k \in keys |->
            {RowMun(rows[i]) : i \in {j \in used :
                <<RowCiclo(rows[j]), RowGrado(rows[j])>> = k}}]

\* BuildAnygradeIndex that passes over the rows without a grade
BuildAnygradeIndex_graded(rows) ==
    LET used == {i \in DOMAIN rows : RowIndexed(rows[i]) /\ RowGrado(rows[i]) # <<>>}
        keys == {RowCiclo(rows[i]) : i \in used}
    IN  [k \in keys |->
            {RowMun(rows[i]) : i \in {j \in used : RowCiclo(rows[j]) = k}}]

BuildAnygradeIndex(rows) ==
    LET used == {i \in DOMAIN rows : RowIndexed(rows[i])}
        keys == {RowCiclo(rows[i]) : i \in used}
    IN  [k \in keys |->
            {RowMun(rows[i]) : i \in {j \in used : RowCiclo(rows[j]) = k}}]

BuildMunicipios(rows) ==
    SortedStrs({RowMun(rows[i]) : i \in {j \in DOMAIN rows : RowMun(rows[j]) # <<>>}})

\* ------------------------------------------------------------------
\* Fuzzy matching.  The scorer is a library (rapidfuzz or difflib); its
\* scores are an input of the model, given in hundredths of a point so
\* that int(score) is a real truncation.  rank[c] is the score the
\* library ranks choice c by.  With rapidfuzz the reported score is the
\* ranking score; with difflib it is a second SequenceMatcher ratio,
\* taken with the arguments swapped (rep).  Ties go to the first choice
\* in list order with rapidfuzz (first tells which end that is) and to
\* the greatest string with difflib (heapq.nlargest on (score, word)).
\* ------------------------------------------------------------------
RawScores == {5499, 5500}

IntScore(raw) == raw \div 100

Better(rank, greatest, c, d) ==
    \/ rank[c] > rank[d]
    \/ rank[c] = rank[d] /\ (IF greatest THEN StrLeq(d, c) ELSE StrLeq(c, d))

best_match_with_rapidfuzz(choices, rank, first) ==
    IF choices = {} THEN <<<<>>, 0>>
    ELSE LET m == CHOOSE c \in choices :
                     \A d \in choices : Better(rank, ~first, c, d)
         IN  <<m, IntScore(rank[m])>>

best_match_with_difflib(choices, rank, rep) ==
    IF choices = {} THEN <<<<>>, 0>>
    ELSE LET m == CHOOSE c \in choices :
                     \A d \in choices : Better(rank, TRUE, c, d)
         IN  <<m, IntScore(rep)>>

best_cycle_match(anyidx, rf, ciclo_n, o) ==
    IF ciclo_n = <<>> \/ DOMAIN anyidx = {} THEN <<<<>>, 0>>
    ELSE IF rf THEN best_match_with_rapidfuzz(DOMAIN anyidx, o.rankC, o.first)
    ELSE best_match_with_difflib(DOMAIN anyidx, o.rankC, o.repC)

best_grado_match(rf, grado_n, grados_choices, o) ==
    IF grado_n = <<>> \/ grados_choices = {} THEN <<<<>>, 0>>
    ELSE IF rf THEN best_match_with_rapidfuzz(grados_choices, o.rankG, o.first)
    ELSE best_match_with_difflib(grados_choices, o.rankG, o.repG)

Info(rf, mc, ms, mg, gs) ==
    [rapidfuzz |-> rf, matched_ciclo |-> mc, match_score |-> ms,
     matched_grado |-> mg, grado_score |-> gs]

\* the exact tier looking the pair up the wrong way round
ExactLookup_swapped(idx, ciclo_n, grado_n) == Get(idx, <<grado_n, ciclo_n>>, {})

\* line 394: exact = _cycle_city_index.get((ciclo_n, grado_n))
ExactLookup(idx, ciclo_n, grado_n) == Get(idx, <<ciclo_n, grado_n>>, {})

\* the cutoff made exclusive at 55
CycleRejected_exclusive(matched_ciclo, score) == matched_ciclo = <<>> \/ score <= 55

\* line 413: if not matched_ciclo or score < 55
CycleRejected(matched_ciclo, score) == matched_ciclo = <<>> \/ score < 55

\* line 427: if matched_grado and gscore >= 55
GradoAccepted(matched_grado, gscore) == matched_grado # <<>> /\ gscore >= 55

\* no fallback to the any-grade set
CitiesAny_none(anyidx, matched_ciclo) == {}

\* line 432: cities_any = _cycle_anygrade_index.get(matched_ciclo, set())
CitiesAny(anyidx, matched_ciclo) == Get(anyidx, matched_ciclo, {})

\* _find_cities_for_cycle from line 382 on, for the index (idx, anyidx)
\* it reads
find_cities_for_cycle(idx, anyidx, rf, ciclo, grado, o) ==
    LET ciclo_n == Norm(ciclo)
        grado_n == Norm(grado)
        exact == ExactLookup(idx, ciclo_n, grado_n)
        anyg == Get(anyidx, ciclo_n, {})
        bc == best_cycle_match(anyidx, rf, ciclo_n, o)
        matched_ciclo == bc[1]
        score == bc[2]
        grados_posibles == {k[2] : k \in {kk \in DOMAIN idx : kk[1] = matched_ciclo}}
        bg == best_grado_match(rf, grado_n, grados_posibles, o)
        matched_grado == bg[1]
        gscore == bg[2]
        cities == Get(idx, <<matched_ciclo, matched_grado>>, {})
        cities_any == CitiesAny(anyidx, matched_ciclo)
    IN  IF DOMAIN idx = {} /\ DOMAIN anyidx = {}
        THEN [cities |-> <<>>, info |-> Info(rf, <<>>, 0, <<>>, 0)]
        ELSE IF ciclo_n # <<>> /\ grado_n # <<>> /\ exact # {}
        THEN [cities |-> SortedStrs(exact),
              info |-> Info(rf, ciclo_n, 100, grado_n, 100)]
        ELSE IF ciclo_n # <<>> /\ anyg # {}
        THEN [cities |-> SortedStrs(anyg), info |-> Info(rf, ciclo_n, 100, <<>>, 0)]
        ELSE IF CycleRejected(matched_ciclo, score)
        THEN [cities |-> <<>>, info |-> Info(rf, matched_ciclo, score, <<>>, 0)]
        ELSE IF grado_n # <<>> /\ grados_posibles # {}
        THEN IF GradoAccepted(matched_grado, gscore) /\ cities # {}
             THEN [cities |-> SortedStrs(cities),
                   info |-> Info(rf, matched_ciclo, score, matched_grado, gscore)]
             ELSE [cities |-> SortedStrs(cities_any),
                   info |-> Info(rf, matched_ciclo, score, matched_grado, gscore)]
        ELSE [cities |-> SortedStrs(cities_any),
              info |-> Info(rf, matched_ciclo, score, <<>>, 0)]

\* ------------------------------------------------------------------
\* Centre index: records, heuristic score, ordering
\* ------------------------------------------------------------------
Digits == <<"0","1","2","3","4","5","6","7","8","9">>
IsDigit(c) == \E i \in 1..10 : Digits[i] = c
DigitVal(c) == (CHOOSE i \in 1..10 : Digits[i] = c) - 1

RECURSIVE NatOf(_)
NatOf(s) == IF s = <<>> THEN 0
            ELSE 10 * NatOf(SubSeq(s, 1, Len(s) - 1)) + DigitVal(s[Len(s)])

AllDigits(s) == s # <<>> /\ \A i \in 1..Len(s) : IsDigit(s[i])

\* int(s) raises ValueError unless s is an optionally signed run of
\* digits, in which single underscores may stand between digits
DigitGroups(s) ==
    /\ s # <<>>
    /\ \A i \in 1..Len(s) : IsDigit(s[i]) \/ s[i] = "_"
    /\ IsDigit(s[1]) /\ IsDigit(s[Len(s)])
    /\ \A i \in 1..(Len(s) - 1) : ~(s[i] = "_" /\ s[i + 1] = "_")
IntParses(s) == \/ DigitGroups(s)
                \/ Len(s) > 1 /\ s[1] \in {"-", "+"} /\ DigitGroups(Tail(s))
IntOf(s) == LET digits(x) == SelectSeq(x, IsDigit)
            IN  IF s[1] = "-" THEN 0 - NatOf(digits(Tail(s)))
                ELSE IF s[1] = "+" THEN NatOf(digits(Tail(s)))
                ELSE NatOf(digits(s))

\* _safe_float: None for None (TypeError), for text that is no number
\* (ValueError) and for NaN; the model's numbers are the digit runs
safe_float(x) == IF x # None /\ AllDigits(Strip(x)) THEN <<"float", NatOf(Strip(x))>>
                 ELSE None

\* str(x)
PyStr(x) == IF x = None THEN <<"N","o","n","e">> ELSE x

sCIPFP == <<"C","I","P","F","P">>
sCENTRE_INTEGRAT == <<"C","E","N","T","R","E"," ","I","N","T","E","G","R","A","T">>
sCENTRO_INTEGRADO == <<"C","E","N","T","R","O"," ","I","N","T","E","G","R","A","D","O">>
sFORMACION_acc == <<"F","O","R","M","A","C","I","Ó","N"," ",
                    "P","R","O","F","E","S","I","O","N","A","L">>
sFORMACION == <<"F","O","R","M","A","C","I","O","N"," ",
                "P","R","O","F","E","S","I","O","N","A","L">>
sFP == <<"F","P">>
sIES == <<"I","E","S">>
sINSTITUTO == <<"I","N","S","T","I","T","U","T","O">>

\* _centro_fp_score(row): row is any dict; the three keys are read
\* with .get(key, "")
centro_fp_score(row) ==
    LET hay == StrUpper(JoinSp(<<PyStr(Get(row, "denominacion_generica_es", <<>>)),
                                 PyStr(Get(row, "denominacion_especifica", <<>>)),
                                 PyStr(Get(row, "denominacion", <<>>))>>))
    IN  (IF Contains(hay, sCIPFP) \/ Contains(hay, sCENTRE_INTEGRAT)
            \/ Contains(hay, sCENTRO_INTEGRADO) THEN 50 ELSE 0)
      + (IF Contains(hay, sFORMACION_acc) \/ Contains(hay, sFORMACION) THEN 35 ELSE 0)
      + (IF Contains(hay, sFP) THEN 10 ELSE 0)
      + (IF Contains(hay, sIES) \/ Contains(hay, sINSTITUTO) THEN 6 ELSE 0)

sZero == <<"0">>
sZeroZero == <<"0",".","0">>
sNan == <<"n","a","n">>
sNoneStr == <<"N","o","n","e">>

\* the item dict built for one row of the centres CSV
CentroItem(row) ==
    LET tel == Strip(PyStr(IF Get(row, "telefono", <<>>) \in {None, <<>>}
                           THEN <<>> ELSE Get(row, "telefono", <<>>)))
        url == Strip(OrEmpty(Get(row, "url_es", <<>>)))
    IN  [codigo    |-> Get(row, "codigo", <<>>),
         nombre    |-> Strip(OrEmpty(Get(row, "denominacion", <<>>))),
         tipo      |-> Strip(OrEmpty(Get(row, "denominacion_generica_es", <<>>))),
         regimen   |-> Strip(OrEmpty(Get(row, "regimen", <<>>))),
         direccion |-> Strip(OrEmpty(Get(row, "direccion", <<>>))),
         numero    |-> Strip(OrEmpty(Get(row, "numero", <<>>))),
         cp        |-> Get(row, "codigo_postal", <<>>),
         localidad |-> Strip(OrEmpty(Get(row, "localidad", <<>>))),
         provincia |-> Strip(OrEmpty(Get(row, "provincia", <<>>))),
         telefono  |-> IF tel \in {sZero, sZeroZero, sNan, sNoneStr} THEN <<>> ELSE tel,
         url       |-> IF url \in {sNan, sNoneStr} THEN <<>> ELSE url,
         lat       |-> safe_float(Get(row, "latitud", None)),
         lon       |-> safe_float(Get(row, "longitud", None))]

RowLocalidad(row) == Strip(OrEmpty(Get(row, "localidad", <<>>)))

\* the sort key of line 567: (-_centro_fp_score(r), (r.get("nombre") or "").lower())
SortName(r) == StrLower(OrEmpty(Get(r, "nombre", None)))
KeyLess(a, b) ==
    \/ (0 - centro_fp_score(a)) < (0 - centro_fp_score(b))
    \/ /\ centro_fp_score(a) = centro_fp_score(b)
       /\ StrLess(SortName(a), SortName(b))

\* list.sort is stable: x goes after every element whose key is not greater
RECURSIVE InsertSorted(_, _)
InsertSorted(arr, x) ==
    IF arr = <<>> THEN <<x>>
    ELSE IF KeyLess(x, Head(arr)) THEN <<x>> \o arr
    ELSE <<Head(arr)>> \o InsertSorted(Tail(arr), x)

RECURSIVE SortCentros(_)
SortCentros(arr) ==
    IF arr = <<>> THEN <<>>
    ELSE InsertSorted(SortCentros(SubSeq(arr, 1, Len(arr) - 1)), arr[Len(arr)])

RECURSIVE SelectRows(_, _)
SelectRows(rows, key) ==
    IF rows = <<>> THEN <<>>
    ELSE (IF RowLocalidad(Head(rows)) # <<>> /\ Norm(RowLocalidad(Head(rows))) = key
          THEN <<CentroItem(Head(rows))>> ELSE <<>>) \o SelectRows(Tail(rows), key)

\* the row loop and the sort of _load_centros_index
BuildCentros(rows) ==
    LET keys == {Norm(RowLocalidad(rows[i])) :
                    i \in {j \in DOMAIN rows : RowLocalidad(rows[j]) # <<>>}}
    IN  [k \in keys |-> SortCentros(SelectRows(rows, k))]

RECURSIVE FilterFP(_)
FilterFP(items) ==
    IF items = <<>> THEN <<>>
    ELSE (IF centro_fp_score(Head(items)) >= 10 THEN <<Head(items)>> ELSE <<>>)
         \o FilterFP(Tail(items))

Min(a, b) == IF a < b THEN a ELSE b
Max(a, b) == IF a > b THEN a ELSE b

\* Lim without the lower clamp of line 728
Lim_unclamped(limit) ==
    LET lim == IF limit # <<>> /\ IntParses(limit) THEN IntOf(limit) ELSE 25
    IN  Min(lim, 100)

\* lines 724-728 of centros()
Lim(limit) == LET lim == IF limit # <<>> /\ IntParses(limit) THEN IntOf(limit) ELSE 25
              IN  Max(1, Min(lim, 100))

\* lines 716-730 of centros(): the records returned for a query on index idx
centros_out(idx, municipio, limit, only_fp) ==
    LET key == Norm(municipio)
        items == Get(idx, key, <<>>)
        kept == IF only_fp = <<"1">> THEN FilterFP(items) ELSE items
    IN  SubSeq(kept, 1, Min(Lim(limit), Len(kept)))

\* ------------------------------------------------------------------
\* Inputs of the model
\* ------------------------------------------------------------------
Threads == {"t1", "t2"}
Free == "free"

\* time.time() when the process starts; any value past both TTLs
StartTime == 1000000

\* how far the clock can jump between two steps: to the last second
\* within a TTL, or to its end
FPDeltas == {INDEX_TTL_SECONDS - 1, INDEX_TTL_SECONDS}
CentrosDeltas == {CENTROS_TTL_SECONDS - 1, CENTROS_TTL_SECONDS}

FPRow(c, g, m) == [NOM_CICLO |-> c, NOM_GRADO |-> g, NOM_MUN |-> m]
CRow(den, gen, loc) ==
    [denominacion |-> den, denominacion_generica_es |-> gen,
     localidad |-> loc, direccion |-> <<>>]

sAdm == <<"A","d","m">>
sMedio == <<"m">>
sSup == <<"s">>
sAlc == <<"A","l","c">>
sBen == <<"B","e","n">>
sIesX == <<"I","E","S"," ","x">>
sCipfpY == <<"C","I","P","F","P"," ","y">>
sCol == <<"C","o","l">>

\* what a download of the FP CSV can deliver, after decoding and parsing
FPPayloads ==
    { [fields |-> FPNeeded,
       rows |-> <<FPRow(sAdm, sMedio, sAlc), FPRow(sAdm, sSup, sBen)>>],
      [fields |-> FPNeeded \ {"NOM_GRADO"}, rows |-> <<>>] }

\* what a download of the centres CSV can deliver
CentrosPayloads ==
    { [fields |-> CentrosNeeded \cup {"denominacion_generica_es"},
       rows |-> <<CRow(sIesX, sCol, sAlc), CRow(sCipfpY, sCol, sAlc)>>],
      [fields |-> CentrosNeeded \ {"direccion"}, rows |-> <<>>] }

\* ------------------------------------------------------------------
\* Error messages: msg is the fixed text, missing/found the column lists
\* ------------------------------------------------------------------
NoError == [msg |-> "", missing |-> {}, found |-> {}]
FPDownloadError ==
    [msg |-> "No se pudo descargar CSV GVA (2025/2024). Error: ", missing |-> {}, found |-> {}]
\* the message naming every required column instead of the absent ones
FPColumnsError_needed(fields) ==
    [msg |-> "CSV descargado pero faltan columnas: ",
     missing |-> FPNeeded, found |-> fields]

\* lines 306-309
FPColumnsError(fields) ==
    [msg |-> "CSV descargado pero faltan columnas: ",
     missing |-> FPNeeded \ fields, found |-> fields]
CentrosDownloadError ==
    [msg |-> "No se pudo descargar CSV centros. Error: ", missing |-> {}, found |-> {}]
CentrosColumnsError(fields) ==
    [msg |-> "CSV centros descargado pero faltan columnas: ",
     missing |-> CentrosNeeded \ fields, found |-> fields]

\* str(e) of the csv.Error that csv.DictReader raises on a field longer
\* than its field size limit
CsvError == [msg |-> "field larger than field limit (131072)", missing |-> {}, found |-> {}]

Truthy(e) == e.msg # ""

\* ------------------------------------------------------------------
\* State
\* ------------------------------------------------------------------
\* loads, sawNone and snap record history and are read by no action:
\* loads[t] counts the fetches of t's current request, sawNone[t] tells
\* that the index had never been published when the request read it, and
\* snap holds the shared state each index had when its last refresh
\* completed (fp, centros) and, for a thread serving /api/ciudades, the
\* cycle indices that completed refreshes have left since its request
\* began, the one in place at its start included (seen), and whether
\* the index a non-forced request asks for was non-empty and younger
\* than its TTL when the request began (fresh).
VARIABLES
    clock, ticks, reqs,
    cycle_city_index, cycle_anygrade_index, municipios_all,
    last_index_load_ts, last_index_source, last_index_error, fp_index_lock,
    centros_by_localidad, centros_last_load_ts, centros_last_source,
    centros_last_error, centros_lock,
    rapidfuzz,
    pc, op, args, force, now, pend, resp,
    loads, sawNone,
    call,
    snap

envvars == <<clock, ticks, reqs>>
fpvars == <<cycle_city_index, cycle_anygrade_index, municipios_all,
            last_index_load_ts, last_index_source, last_index_error>>
cvars == <<centros_by_localidad, centros_last_load_ts, centros_last_source,
           centros_last_error>>
lockvars == <<fp_index_lock, centros_lock>>
thvars == <<pc, op, args, force, now, pend, resp, loads, sawNone>>
vars == <<envvars, fpvars, cvars, lockvars, rapidfuzz, thvars, call, snap>>

\* what a refresh is about to publish (the loader's locals); fields is
\* the set of column names of the downloaded CSV (lines 300 and 522)
NoPend == [index |-> <<>>, any |-> <<>>, mun |-> <<>>, byloc |-> <<>>,
           source |-> "", error |-> NoError, fields |-> {}]
NoArgs == [municipio |-> <<>>, limit |-> <<>>, only_fp |-> <<>>,
           ciclo |-> <<>>, grado |-> <<>>]
NoMatch == [rapidfuzz |-> FALSE, matched_ciclo |-> <<>>, match_score |-> 0,
            matched_grado |-> <<>>, grado_score |-> 0]
NoResp == [status |-> 0, error |-> NoError, pairs |-> 0, cycles |-> 0,
           count |-> 0, items |-> <<>>, source |-> "", match |-> NoMatch]
NoCall == [fn |-> "none"]

\* the shared state of each index, as one value
SharedFP == [index |-> cycle_city_index, any |-> cycle_anygrade_index,
             mun |-> municipios_all, ts |-> last_index_load_ts,
             source |-> last_index_source, error |-> last_index_error]
SharedCentros == [byloc |-> centros_by_localidad, ts |-> centros_last_load_ts,
                  source |-> centros_last_source, error |-> centros_last_error]
IndexPair(index, any) == [index |-> index, any |-> any]

InitShared ==
    /\ cycle_city_index = <<>>
    /\ cycle_anygrade_index = <<>>
    /\ municipios_all = <<>>
    /\ last_index_load_ts = 0
    /\ last_index_source = ""
    /\ last_index_error = NoError
    /\ fp_index_lock = Free
    /\ centros_by_localidad = <<>>
    /\ centros_last_load_ts = 0
    /\ centros_last_source = ""
    /\ centros_last_error = NoError
    /\ centros_lock = Free

InitThreads ==
    /\ pc = [t \in Threads |-> "idle"]
    /\ op = [t \in Threads |-> "none"]
    /\ args = [t \in Threads |-> NoArgs]
    /\ force = [t \in Threads |-> FALSE]
    /\ now = [t \in Threads |-> 0]
    /\ pend = [t \in Threads |-> NoPend]
    /\ resp = [t \in Threads |-> NoResp]
    /\ loads = [t \in Threads |-> 0]
    /\ sawNone = [t \in Threads |-> FALSE]

Init ==
    /\ clock = StartTime
    /\ ticks = 0
    /\ reqs = 0
    /\ InitShared
    /\ InitThreads
    /\ rapidfuzz = TRUE
    /\ call = NoCall
    /\ snap = [fp |-> SharedFP, centros |-> SharedCentros,
               seen |-> [t \in Threads |-> {}],
               fresh |-> [t \in Threads |-> FALSE]]

\* ------------------------------------------------------------------
\* The clock.  time.time() is read at lines 265, 270, 489 and 494; how
\* much time has passed since the previous reading is an input of the
\* step that reads it.
\* ------------------------------------------------------------------
Elapsed(D) == {0} \cup (IF ticks < MaxTicks THEN D ELSE {})

Advance(d) ==
    /\ clock' = clock + d
    /\ ticks' = IF d = 0 THEN ticks ELSE ticks + 1

\* ------------------------------------------------------------------
\* Requests: a worker thread enters a handler and runs it up to its
\* first read of shared state
\* ------------------------------------------------------------------
\* the pairs of cycle tables a call can find when it starts: those of
\* the last completed load, the two shared tables whenever no load
\* stands between its writes of lines 331 and 332, and those of a load
\* that stands there
InPlace ==
    {IndexPair(snap.fp.index, snap.fp.any)}
    \cup (IF \A u \in Threads : pc[u] # "fp_pub_any"
          THEN {IndexPair(cycle_city_index, cycle_anygrade_index)} ELSE {})
    \cup {IndexPair(pend[u].index, pend[u].any) :
              u \in {v \in Threads : pc[v] = "fp_pub_any"}}

\* the index that request o asks for is non-empty and younger than its
\* TTL at time at
PublishedFresh(o, at) ==
    IF o = "centros"
    THEN /\ DOMAIN centros_by_localidad # {}
         /\ (at - centros_last_load_ts) < CENTROS_TTL_SECONDS
    ELSE /\ DOMAIN cycle_city_index # {}
         /\ (at - last_index_load_ts) < INDEX_TTL_SECONDS

Begin(t, o, a, f, D) ==
    /\ pc[t] = "idle"
    /\ reqs < MaxRequests
    /\ reqs' = reqs + 1
    /\ op' = [op EXCEPT ![t] = o]
    /\ args' = [args EXCEPT ![t] = a]
    /\ force' = [force EXCEPT ![t] = f]
    /\ \E d \in Elapsed(D) :
        /\ Advance(d)
        /\ now' = [now EXCEPT ![t] = clock + d]
        /\ snap' = [snap EXCEPT
                        !.seen[t] = IF o = "ciudades" THEN InPlace ELSE {},
                        !.fresh[t] = ~f /\ PublishedFresh(o, clock + d)]
    /\ UNCHANGED <<fpvars, cvars, lockvars, rapidfuzz, pend, resp, loads, call>>

\* lines 265-266 of _load_gva_fp_index: now = time.time(); force and the
\* index are read
BeginFP(t, o, f) ==
    /\ Begin(t, o, NoArgs, f, FPDeltas)
    /\ sawNone' = [sawNone EXCEPT ![t] = (last_index_load_ts = 0)]
    /\ pc' = [pc EXCEPT ![t] =
                IF ~f /\ DOMAIN cycle_city_index # {}
                THEN "fp_check_ts" ELSE "fp_lock"]

\* GET /api/municipios: municipios() up to line 266
StartMunicipios(t) == BeginFP(t, "municipios", FALSE)

\* GET /api/ciudades/debug: ciudades_debug() up to line 266
StartDebug(t) == BeginFP(t, "debug", TRUE)

\* GET /api/centros?municipio=..&only_fp=..: centros() up to line 490 of
\* _load_centros_index(force=False)
StartCentros(t) ==
    \E only \in {<<"0">>, <<"1">>} :
        /\ Begin(t, "centros", [NoArgs EXCEPT !.municipio = sAlc, !.only_fp = only],
                 FALSE, CentrosDeltas)
        /\ sawNone' = [sawNone EXCEPT ![t] = (centros_last_load_ts = 0)]
        /\ pc' = [pc EXCEPT ![t] =
                    IF DOMAIN centros_by_localidad # {}
                    THEN "c_check_ts" ELSE "c_lock"]

\* the response has been sent: the thread is free for the next request
Return(t) ==
    /\ pc[t] = "done"
    /\ pc' = [pc EXCEPT ![t] = "idle"]
    /\ op' = [op EXCEPT ![t] = "none"]
    /\ args' = [args EXCEPT ![t] = NoArgs]
    /\ force' = [force EXCEPT ![t] = FALSE]
    /\ now' = [now EXCEPT ![t] = 0]
    /\ pend' = [pend EXCEPT ![t] = NoPend]
    /\ resp' = [resp EXCEPT ![t] = NoResp]
    /\ loads' = [loads EXCEPT ![t] = 0]
    /\ sawNone' = [sawNone EXCEPT ![t] = FALSE]
    /\ snap' = [snap EXCEPT !.seen[t] = {}, !.fresh[t] = FALSE]
    /\ UNCHANGED <<envvars, fpvars, cvars, lockvars, rapidfuzz, call>>

\* where a handler goes on when its loader call returns
AfterLoad(t) == CASE op[t] = "municipios" -> "m_error"
                  [] op[t] = "debug" -> "d_pairs"
                  [] op[t] = "centros" -> "z_error"
                  [] op[t] = "ciudades" -> "f_idx"
                  [] OTHER -> "idle"

\* ------------------------------------------------------------------
\* _load_gva_fp_index(force)
\* ------------------------------------------------------------------
FPFresh(t, at) ==
    /\ ~force[t]
    /\ DOMAIN cycle_city_index # {}
    /\ (at - last_index_load_ts) < INDEX_TTL_SECONDS

\* line 266, last operand: the timestamp is read; line 267
FpCheckTs(t) ==
    /\ pc[t] = "fp_check_ts"
    /\ IF (now[t] - last_index_load_ts) < INDEX_TTL_SECONDS
       THEN /\ pc' = [pc EXCEPT ![t] = AfterLoad(t)]
            /\ now' = [now EXCEPT ![t] = 0]
       ELSE /\ pc' = [pc EXCEPT ![t] = "fp_lock"]
            /\ now' = now
    /\ UNCHANGED <<envvars, fpvars, cvars, lockvars, rapidfuzz, op, args, force,
                   pend, resp, loads, sawNone, call, snap>>

\* FpLock without the mutual exclusion of line 269
FpLock_unguarded(t) ==
    /\ pc[t] = "fp_lock"
    /\ \E d \in Elapsed(FPDeltas) :
        /\ Advance(d)
        /\ IF FPFresh(t, clock + d)
           THEN /\ fp_index_lock' = Free
                /\ pc' = [pc EXCEPT ![t] = AfterLoad(t)]
                /\ now' = [now EXCEPT ![t] = 0]
           ELSE /\ fp_index_lock' = t
                /\ pc' = [pc EXCEPT ![t] = "fp_clear_error"]
                /\ now' = [now EXCEPT ![t] = clock + d]
    /\ UNCHANGED <<reqs, fpvars, cvars, centros_lock, rapidfuzz, op, args, force,
                   pend, resp, loads, sawNone, call, snap>>

\* lines 269-272: the lock is taken, then now = time.time() and the
\* second check.  Nothing but the lock holder writes the index, so the
\* acquisition and the check are one step
FpLock(t) ==
    /\ pc[t] = "fp_lock"
    /\ fp_index_lock = Free
    /\ \E d \in Elapsed(FPDeltas) :
        /\ Advance(d)
        /\ IF FPFresh(t, clock + d)
           THEN /\ fp_index_lock' = Free
                /\ pc' = [pc EXCEPT ![t] = AfterLoad(t)]
                /\ now' = [now EXCEPT ![t] = 0]
           ELSE /\ fp_index_lock' = t
                /\ pc' = [pc EXCEPT ![t] = "fp_clear_error"]
                /\ now' = [now EXCEPT ![t] = clock + d]
    /\ UNCHANGED <<reqs, fpvars, cvars, centros_lock, rapidfuzz, op, args, force,
                   pend, resp, loads, sawNone, call, snap>>

\* line 274
FpClearError(t) ==
    /\ pc[t] = "fp_clear_error"
    /\ last_index_error' = NoError
    /\ pc' = [pc EXCEPT ![t] = "fp_clear_source"]
    /\ UNCHANGED <<envvars, cycle_city_index, cycle_anygrade_index, municipios_all,
                   last_index_load_ts, last_index_source, cvars, lockvars, rapidfuzz,
                   op, args, force, now, pend, resp, loads, sawNone, call, snap>>

\* line 275
FpClearSource(t) ==
    /\ pc[t] = "fp_clear_source"
    /\ last_index_source' = ""
    /\ pc' = [pc EXCEPT ![t] = "fp_download_2025"]
    /\ UNCHANGED <<envvars, cycle_city_index, cycle_anygrade_index, municipios_all,
                   last_index_load_ts, last_index_error, cvars, lockvars, rapidfuzz,
                   op, args, force, now, pend, resp, loads, sawNone, call, snap>>

\* lines 287-329: what the loader will publish for a downloaded payload
FPBuilt(p, source) ==
    IF ~(FPNeeded \subseteq p.fields)
    THEN [index |-> <<>>, any |-> <<>>, mun |-> <<>>, byloc |-> <<>>,
          source |-> source, error |-> FPColumnsError(p.fields), fields |-> p.fields]
    ELSE [index |-> BuildCycleCityIndex(p.rows),
          any |-> BuildAnygradeIndex(p.rows),
          mun |-> BuildMunicipios(p.rows), byloc |-> <<>>,
          source |-> source, error |-> NoError, fields |-> p.fields]

\* lines 278-284: what the loader will publish when every download failed
FPFailed == [index |-> <<>>, any |-> <<>>, mun |-> <<>>, byloc |-> <<>>,
             source |-> "", error |-> FPDownloadError, fields |-> {}]

\* _read_gva_csv_bytes, first candidate (lines 247-253), then the parse
\* and build of what it delivered
FpDownload2025(t) ==
    /\ pc[t] = "fp_download_2025"
    /\ loads' = [loads EXCEPT ![t] = loads[t] + 1]
    /\ \/ \E p \in FPPayloads :
            /\ pend' = [pend EXCEPT ![t] = FPBuilt(p, GVA_FP_CSV_URL_2025)]
            /\ pc' = [pc EXCEPT ![t] = "fp_pub_index"]
       \/ /\ pend' = pend
          /\ pc' = [pc EXCEPT ![t] = "fp_download_2024"]
    /\ UNCHANGED <<envvars, fpvars, cvars, lockvars, rapidfuzz, op, args, force,
                   now, resp, sawNone, call, snap>>

\* FpDownload2024 recording the first candidate as the source
FpDownload2024_first(t) ==
    /\ pc[t] = "fp_download_2024"
    /\ \/ \E p \in FPPayloads :
            pend' = [pend EXCEPT ![t] = FPBuilt(p, GVA_FP_CSV_URL_2025)]
       \/ pend' = [pend EXCEPT ![t] = FPFailed]
    /\ pc' = [pc EXCEPT ![t] = "fp_pub_index"]
    /\ UNCHANGED <<envvars, fpvars, cvars, lockvars, rapidfuzz, op, args, force,
                   now, resp, loads, sawNone, call, snap>>

\* _read_gva_csv_bytes, second candidate, and lines 255-258
FpDownload2024(t) ==
    /\ pc[t] = "fp_download_2024"
    /\ \/ \E p \in FPPayloads :
            pend' = [pend EXCEPT ![t] = FPBuilt(p, GVA_FP_CSV_URL_2024)]
       \/ pend' = [pend EXCEPT ![t] = FPFailed]
    /\ pc' = [pc EXCEPT ![t] = "fp_pub_index"]
    /\ UNCHANGED <<envvars, fpvars, cvars, lockvars, rapidfuzz, op, args, force,
                   now, resp, loads, sawNone, call, snap>>

\* a candidate delivered bytes on which csv.DictReader raises csv.Error
\* (reader.fieldnames at line 295, or the row loop at line 317): nothing
\* in the loader catches it, the with block releases the lock and the
\* exception reaches the handler, which answers 500 (municipios at lines
\* 680-681, ciudades at 660-661, ciudades_debug through Flask)
FpParseRaises(t) ==
    /\ pc[t] \in {"fp_download_2025", "fp_download_2024"}
    /\ loads' = [loads EXCEPT ![t] = IF pc[t] = "fp_download_2025"
                                      THEN loads[t] + 1 ELSE loads[t]]
    /\ fp_index_lock' = Free
    /\ pc' = [pc EXCEPT ![t] = "done"]
    /\ now' = [now EXCEPT ![t] = 0]
    /\ resp' = [resp EXCEPT ![t] = [NoResp EXCEPT !.status = 500, !.error = CsvError]]
    /\ UNCHANGED <<envvars, fpvars, cvars, centros_lock, rapidfuzz, op, args, force,
                   pend, sawNone, call, snap>>

\* lines 279 / 302 / 331
FpPubIndex(t) ==
    /\ pc[t] = "fp_pub_index"
    /\ cycle_city_index' = pend[t].index
    /\ pc' = [pc EXCEPT ![t] = "fp_pub_any"]
    /\ UNCHANGED <<envvars, cycle_anygrade_index, municipios_all,
                   last_index_load_ts, last_index_source, last_index_error,
                   cvars, lockvars, rapidfuzz,
                   op, args, force, now, pend, resp, loads, sawNone, call>>
    /\ snap' = [snap EXCEPT
                    !.seen = [u \in Threads |->
                                IF op[u] = "ciudades"
                                THEN snap.seen[u] \cup
                                     {IndexPair(pend[t].index, pend[t].any)}
                                ELSE snap.seen[u]]]

\* lines 280 / 303 / 332
FpPubAny(t) ==
    /\ pc[t] = "fp_pub_any"
    /\ cycle_anygrade_index' = pend[t].any
    /\ pc' = [pc EXCEPT ![t] = "fp_pub_mun"]
    /\ UNCHANGED <<envvars, cycle_city_index, municipios_all,
                   last_index_load_ts, last_index_source, last_index_error,
                   cvars, lockvars, rapidfuzz,
                   op, args, force, now, pend, resp, loads, sawNone, call, snap>>

\* lines 281 / 304 / 333
FpPubMun(t) ==
    /\ pc[t] = "fp_pub_mun"
    /\ municipios_all' = pend[t].mun
    /\ pc' = [pc EXCEPT ![t] = "fp_pub_ts"]
    /\ UNCHANGED <<envvars, cycle_city_index, cycle_anygrade_index,
                   last_index_load_ts, last_index_source, last_index_error,
                   cvars, lockvars, rapidfuzz,
                   op, args, force, now, pend, resp, loads, sawNone, call, snap>>

\* lines 282 / 305 / 335
FpPubTs(t) ==
    /\ pc[t] = "fp_pub_ts"
    /\ last_index_load_ts' = now[t]
    /\ pc' = [pc EXCEPT ![t] = "fp_pub_source"]
    /\ UNCHANGED <<envvars, cycle_city_index, cycle_anygrade_index, municipios_all,
                   last_index_source, last_index_error, cvars, lockvars, rapidfuzz,
                   op, args, force, now, pend, resp, loads, sawNone, call, snap>>

\* lines 283 / 306 / 336
FpPubSource(t) ==
    /\ pc[t] = "fp_pub_source"
    /\ last_index_source' = pend[t].source
    /\ pc' = [pc EXCEPT ![t] = "fp_pub_error"]
    /\ UNCHANGED <<envvars, cycle_city_index, cycle_anygrade_index, municipios_all,
                   last_index_load_ts, last_index_error, cvars, lockvars, rapidfuzz,
                   op, args, force, now, pend, resp, loads, sawNone, call, snap>>

\* FpPubError that returns with the lock still held
FpPubError_held(t) ==
    /\ pc[t] = "fp_pub_error"
    /\ last_index_error' = pend[t].error
    /\ fp_index_lock' = fp_index_lock
    /\ pc' = [pc EXCEPT ![t] = AfterLoad(t)]
    /\ now' = [now EXCEPT ![t] = 0]
    /\ UNCHANGED <<envvars, cycle_city_index, cycle_anygrade_index, municipios_all,
                   last_index_load_ts, last_index_source, cvars, centros_lock, rapidfuzz,
                   op, args, force, pend, resp, loads, sawNone, call>>
    /\ snap' = [snap EXCEPT !.fp = SharedFP']

\* lines 284 / 307 / 337, and the end of the with block: the last write,
\* the release of the lock and the return
FpPubError(t) ==
    /\ pc[t] = "fp_pub_error"
    /\ last_index_error' = pend[t].error
    /\ fp_index_lock' = Free
    /\ pc' = [pc EXCEPT ![t] = AfterLoad(t)]
    /\ now' = [now EXCEPT ![t] = 0]
    /\ UNCHANGED <<envvars, cycle_city_index, cycle_anygrade_index, municipios_all,
                   last_index_load_ts, last_index_source, cvars, centros_lock, rapidfuzz,
                   op, args, force, pend, resp, loads, sawNone, call>>
    /\ snap' = [snap EXCEPT !.fp = SharedFP']

\* ------------------------------------------------------------------
\* _load_centros_index(force)
\* ------------------------------------------------------------------
CentrosFresh(t, at) ==
    /\ ~force[t]
    /\ DOMAIN centros_by_localidad # {}
    /\ (at - centros_last_load_ts) < CENTROS_TTL_SECONDS

\* line 490, last operand; line 491
CCheckTs(t) ==
    /\ pc[t] = "c_check_ts"
    /\ IF (now[t] - centros_last_load_ts) < CENTROS_TTL_SECONDS
       THEN /\ pc' = [pc EXCEPT ![t] = AfterLoad(t)]
            /\ now' = [now EXCEPT ![t] = 0]
       ELSE /\ pc' = [pc EXCEPT ![t] = "c_lock"]
            /\ now' = now
    /\ UNCHANGED <<envvars, fpvars, cvars, lockvars, rapidfuzz, op, args, force,
                   pend, resp, loads, sawNone, call, snap>>

\* CLock as it would be with one lock for the two indices
CLock_global(t) ==
    /\ pc[t] = "c_lock"
    /\ centros_lock = Free
    /\ fp_index_lock = Free
    /\ \E d \in Elapsed(CentrosDeltas) :
        /\ Advance(d)
        /\ IF CentrosFresh(t, clock + d)
           THEN /\ centros_lock' = Free
                /\ pc' = [pc EXCEPT ![t] = AfterLoad(t)]
                /\ now' = [now EXCEPT ![t] = 0]
           ELSE /\ centros_lock' = t
                /\ pc' = [pc EXCEPT ![t] = "c_clear_error"]
                /\ now' = [now EXCEPT ![t] = clock + d]
    /\ UNCHANGED <<reqs, fpvars, cvars, fp_index_lock, rapidfuzz, op, args, force,
                   pend, resp, loads, sawNone, call, snap>>

\* lines 493-496: the lock is taken, then now = time.time() and the
\* second check
CLock(t) ==
    /\ pc[t] = "c_lock"
    /\ centros_lock = Free
    /\ \E d \in Elapsed(CentrosDeltas) :
        /\ Advance(d)
        /\ IF CentrosFresh(t, clock + d)
           THEN /\ centros_lock' = Free
                /\ pc' = [pc EXCEPT ![t] = AfterLoad(t)]
                /\ now' = [now EXCEPT ![t] = 0]
           ELSE /\ centros_lock' = t
                /\ pc' = [pc EXCEPT ![t] = "c_clear_error"]
                /\ now' = [now EXCEPT ![t] = clock + d]
    /\ UNCHANGED <<reqs, fpvars, cvars, fp_index_lock, rapidfuzz, op, args, force,
                   pend, resp, loads, sawNone, call, snap>>

\* line 498
CClearError(t) ==
    /\ pc[t] = "c_clear_error"
    /\ centros_last_error' = NoError
    /\ pc' = [pc EXCEPT ![t] = "c_clear_source"]
    /\ UNCHANGED <<envvars, fpvars, centros_by_localidad, centros_last_load_ts,
                   centros_last_source, lockvars, rapidfuzz,
                   op, args, force, now, pend, resp, loads, sawNone, call, snap>>

\* line 499
CClearSource(t) ==
    /\ pc[t] = "c_clear_source"
    /\ centros_last_source' = ""
    /\ pc' = [pc EXCEPT ![t] = "c_download"]
    /\ UNCHANGED <<envvars, fpvars, centros_by_localidad, centros_last_load_ts,
                   centros_last_error, lockvars, rapidfuzz,
                   op, args, force, now, pend, resp, loads, sawNone, call, snap>>

\* lines 510-567: what the loader will publish for a downloaded payload
CentrosBuilt(p) ==
    IF ~(CentrosNeeded \subseteq p.fields)
    THEN [index |-> <<>>, any |-> <<>>, mun |-> <<>>, byloc |-> <<>>,
          source |-> GVA_CENTROS_CSV_URL, error |-> CentrosColumnsError(p.fields),
          fields |-> p.fields]
    ELSE [index |-> <<>>, any |-> <<>>, mun |-> <<>>, byloc |-> BuildCentros(p.rows),
          source |-> GVA_CENTROS_CSV_URL, error |-> NoError, fields |-> p.fields]

\* lines 504-507: what the loader will publish when the download failed
CentrosFailed == [index |-> <<>>, any |-> <<>>, mun |-> <<>>, byloc |-> <<>>,
                  source |-> "", error |-> CentrosDownloadError, fields |-> {}]

\* lines 501-504: the download; a delivered payload is followed by the
\* write of the source (line 503), then parsed and built
CDownload(t) ==
    /\ pc[t] = "c_download"
    /\ loads' = [loads EXCEPT ![t] = loads[t] + 1]
    /\ \/ \E p \in CentrosPayloads :
            /\ pend' = [pend EXCEPT ![t] = CentrosBuilt(p)]
            /\ centros_last_source' = GVA_CENTROS_CSV_URL
       \/ /\ pend' = [pend EXCEPT ![t] = CentrosFailed]
          /\ centros_last_source' = centros_last_source
    /\ pc' = [pc EXCEPT ![t] = "c_pub_index"]
    /\ UNCHANGED <<envvars, fpvars, centros_by_localidad, centros_last_load_ts,
                   centros_last_error, lockvars, rapidfuzz,
                   op, args, force, now, resp, sawNone, call, snap>>

\* the download delivered bytes on which csv.DictReader raises csv.Error
\* (line 517 or 535), after the write of the source at line 503; centros()
\* answers 500 at lines 741-742
CParseRaises(t) ==
    /\ pc[t] = "c_download"
    /\ loads' = [loads EXCEPT ![t] = loads[t] + 1]
    /\ centros_last_source' = GVA_CENTROS_CSV_URL
    /\ centros_lock' = Free
    /\ pc' = [pc EXCEPT ![t] = "done"]
    /\ now' = [now EXCEPT ![t] = 0]
    /\ resp' = [resp EXCEPT ![t] = [NoResp EXCEPT !.status = 500, !.error = CsvError]]
    /\ UNCHANGED <<envvars, fpvars, centros_by_localidad, centros_last_load_ts,
                   centros_last_error, fp_index_lock, rapidfuzz, op, args, force,
                   pend, sawNone, call, snap>>

\* lines 505 / 525 / 569
CPubIndex(t) ==
    /\ pc[t] = "c_pub_index"
    /\ centros_by_localidad' = pend[t].byloc
    /\ pc' = [pc EXCEPT ![t] = "c_pub_ts"]
    /\ UNCHANGED <<envvars, fpvars, centros_last_load_ts, centros_last_source,
                   centros_last_error, lockvars, rapidfuzz,
                   op, args, force, now, pend, resp, loads, sawNone, call, snap>>

\* lines 506 / 526 / 570
CPubTs(t) ==
    /\ pc[t] = "c_pub_ts"
    /\ centros_last_load_ts' = now[t]
    /\ pc' = [pc EXCEPT ![t] = "c_pub_error"]
    /\ UNCHANGED <<envvars, fpvars, centros_by_localidad, centros_last_source,
                   centros_last_error, lockvars, rapidfuzz,
                   op, args, force, now, pend, resp, loads, sawNone, call, snap>>

\* lines 507 / 527 / 571, and the end of the with block
CPubError(t) ==
    /\ pc[t] = "c_pub_error"
    /\ centros_last_error' = pend[t].error
    /\ centros_lock' = Free
    /\ pc' = [pc EXCEPT ![t] = AfterLoad(t)]
    /\ now' = [now EXCEPT ![t] = 0]
    /\ UNCHANGED <<envvars, fpvars, centros_by_localidad, centros_last_load_ts,
                   centros_last_source, fp_index_lock, rapidfuzz,
                   op, args, force, pend, resp, loads, sawNone, call>>
    /\ snap' = [snap EXCEPT !.centros = SharedCentros']

\* ------------------------------------------------------------------
\* The handlers after their loader call: every read of a module global
\* is a step of its own
\* ------------------------------------------------------------------
Reads(t, from, to, r) ==
    /\ pc[t] = from
    /\ pc' = [pc EXCEPT ![t] = to]
    /\ resp' = [resp EXCEPT ![t] = r]
    /\ UNCHANGED <<envvars, fpvars, cvars, lockvars, rapidfuzz, op, args, force,
                   now, pend, loads, sawNone, call, snap>>

\* municipios(), line 669: if _last_index_error
MunIfError(t) ==
    Reads(t, "m_error", IF Truthy(last_index_error) THEN "m_error2" ELSE "m_count",
          resp[t])

\* municipios(), line 670
MunError(t) ==
    Reads(t, "m_error2", "done",
          [resp[t] EXCEPT !.status = 500, !.error = last_index_error])

\* municipios(), line 675
MunCount(t) ==
    Reads(t, "m_count", "m_list", [resp[t] EXCEPT !.count = Len(municipios_all)])

\* municipios(), line 676
MunList(t) ==
    Reads(t, "m_list", "m_source", [resp[t] EXCEPT !.items = municipios_all])

\* municipios(), lines 677-679
MunSource(t) ==
    Reads(t, "m_source", "done",
          [resp[t] EXCEPT !.source = last_index_source, !.status = 200])

\* ciudades_debug(), line 690
DebugPairs(t) ==
    Reads(t, "d_pairs", "d_cycles",
          [resp[t] EXCEPT !.pairs = Cardinality(DOMAIN cycle_city_index)])

\* ciudades_debug(), line 691
DebugCycles(t) ==
    Reads(t, "d_cycles", "d_count",
          [resp[t] EXCEPT !.cycles = Cardinality(DOMAIN cycle_anygrade_index)])

\* ciudades_debug(), line 692
DebugCount(t) ==
    Reads(t, "d_count", "d_source", [resp[t] EXCEPT !.count = Len(municipios_all)])

\* ciudades_debug(), line 693
DebugSource(t) ==
    Reads(t, "d_source", "d_error", [resp[t] EXCEPT !.source = last_index_source])

\* ciudades_debug(), lines 694-697
DebugError(t) ==
    Reads(t, "d_error", "done",
          [resp[t] EXCEPT !.error = last_index_error, !.status = 200])

\* centros(), line 713
CentrosIfError(t) ==
    Reads(t, "z_error", IF Truthy(centros_last_error) THEN "z_error2" ELSE "z_items",
          resp[t])

\* centros(), line 714
CentrosError(t) ==
    Reads(t, "z_error2", "done",
          [resp[t] EXCEPT !.status = 500, !.error = centros_last_error])

\* centros(), lines 716-730
CentrosItems(t) ==
    LET out == centros_out(centros_by_localidad, args[t].municipio,
                           args[t].limit, args[t].only_fp)
    IN  Reads(t, "z_items", "z_source",
              [resp[t] EXCEPT !.items = out, !.count = Len(out)])

\* centros(), lines 732-740
CentrosSource(t) ==
    Reads(t, "z_source", "done",
          [resp[t] EXCEPT !.source = centros_last_source, !.status = 200])

\* ------------------------------------------------------------------
\* The request-serving process, FP cycle index
\* ------------------------------------------------------------------
Next ==
    \E t \in Threads :
        \/ StartMunicipios(t) \/ StartDebug(t) \/ Return(t)
        \/ FpCheckTs(t) \/ FpLock(t)
        \/ FpClearError(t) \/ FpClearSource(t)
        \/ FpDownload2025(t) \/ FpDownload2024(t) \/ FpParseRaises(t)
        \/ FpPubIndex(t) \/ FpPubAny(t) \/ FpPubMun(t)
        \/ FpPubTs(t) \/ FpPubSource(t) \/ FpPubError(t)
        \/ MunIfError(t) \/ MunError(t) \/ MunCount(t) \/ MunList(t) \/ MunSource(t)
        \/ DebugPairs(t) \/ DebugCycles(t) \/ DebugCount(t)
        \/ DebugSource(t) \/ DebugError(t)

Spec == Init /\ [][Next]_vars

\* ------------------------------------------------------------------
\* The request-serving process, centre index
\* ------------------------------------------------------------------
NextCentros ==
    \E t \in Threads :
        \/ StartCentros(t) \/ Return(t)
        \/ CCheckTs(t) \/ CLock(t)
        \/ CClearError(t) \/ CClearSource(t) \/ CDownload(t) \/ CParseRaises(t)
        \/ CPubIndex(t) \/ CPubTs(t) \/ CPubError(t)
        \/ CentrosIfError(t) \/ CentrosError(t) \/ CentrosItems(t) \/ CentrosSource(t)

SpecCentros == Init /\ [][NextCentros]_vars

\* ------------------------------------------------------------------
\* Forced refreshes only: every request is a GET /api/ciudades/debug,
\* whose load (force=True, line 686) skips the freshness tests
\* ------------------------------------------------------------------
NextRefresh ==
    \E t \in Threads :
        \/ StartDebug(t) \/ Return(t)
        \/ FpLock(t)
        \/ FpClearError(t) \/ FpClearSource(t)
        \/ FpDownload2025(t) \/ FpDownload2024(t) \/ FpParseRaises(t)
        \/ FpPubIndex(t) \/ FpPubAny(t) \/ FpPubMun(t)
        \/ FpPubTs(t) \/ FpPubSource(t) \/ FpPubError(t)
        \/ DebugPairs(t) \/ DebugCycles(t) \/ DebugCount(t)
        \/ DebugSource(t) \/ DebugError(t)

SpecRefresh == Init /\ [][NextRefresh]_vars

\* ------------------------------------------------------------------
\* Positions
\* ------------------------------------------------------------------
\* inside the fetch+build section of a loader
FPLoadPcs == {"fp_clear_error", "fp_clear_source", "fp_download_2025",
              "fp_download_2024", "fp_pub_index", "fp_pub_any", "fp_pub_mun",
              "fp_pub_ts", "fp_pub_source", "fp_pub_error"}
CentrosLoadPcs == {"c_clear_error", "c_clear_source", "c_download",
                   "c_pub_index", "c_pub_ts", "c_pub_error"}

\* about to read shared state without the lock
FPReadPcs == {"fp_check_ts", "m_error", "m_error2", "m_count", "m_list", "m_source",
              "d_pairs", "d_cycles", "d_count", "d_source", "d_error"}
CentrosReadPcs == {"c_check_ts", "z_error", "z_error2", "z_items", "z_source"}

\* ------------------------------------------------------------------
\* C1.  After a refresh whose load failed at time t, a non-forced request
\* issued before t + TTL performs no fetch.  A thread at the first
\* statement of the fetch+build section holds the lock, so the shared
\* error and timestamp it sees are those of the previous refresh.
\* ------------------------------------------------------------------
C1_FailedLoadIsFresh ==
    \A t \in Threads :
        /\ (pc[t] = "fp_clear_error" /\ ~force[t] /\ Truthy(last_index_error))
              => (now[t] - last_index_load_ts) >= INDEX_TTL_SECONDS
        /\ (pc[t] = "c_clear_error" /\ ~force[t] /\ Truthy(centros_last_error))
              => (now[t] - centros_last_load_ts) >= CENTROS_TTL_SECONDS

\* ------------------------------------------------------------------
\* C2.  Two threads that make a non-forced request for the same index
\* while it has never been published perform one fetch+build between
\* them and return the same observation.
\* ------------------------------------------------------------------
C2_OneLoadForRacingCallers ==
    \A t1, t2 \in Threads :
        (/\ t1 # t2
         /\ pc[t1] = "done" /\ pc[t2] = "done"
         /\ op[t1] = op[t2] /\ ~force[t1] /\ ~force[t2]
         /\ sawNone[t1] /\ sawNone[t2])
        => /\ loads[t1] + loads[t2] = 1
           /\ resp[t1] = resp[t2]

\* ------------------------------------------------------------------
\* C3.  Whenever a thread is about to read the shared state of an index
\* without holding its lock, that state is, field for field, the state
\* left by the last completed refresh (or the initial state).
\* ------------------------------------------------------------------
C3_ReadersSeeOneSnapshot ==
    \A r \in Threads :
        /\ (pc[r] \in FPReadPcs /\ fp_index_lock # r) => SharedFP = snap.fp
        /\ (pc[r] \in CentrosReadPcs /\ centros_lock # r)
              => SharedCentros = snap.centros

\* ------------------------------------------------------------------
\* C4.  A non-forced request made less than TTL after the previous load
\* of the index performs no load, and one made when TTL or more has
\* passed does not return without loading.
\* ------------------------------------------------------------------
C4_NoLoadWithinTTL ==
    \A t \in Threads :
        /\ (pc[t] = "fp_clear_error" /\ ~force[t] /\ last_index_load_ts # 0)
              => (now[t] - last_index_load_ts) >= INDEX_TTL_SECONDS
        /\ (pc[t] = "c_clear_error" /\ ~force[t] /\ centros_last_load_ts # 0)
              => (now[t] - centros_last_load_ts) >= CENTROS_TTL_SECONDS

C4_LoadAfterTTL ==
    \A t \in Threads :
        /\ (pc[t] = "fp_check_ts" /\ pc'[t] \notin {"fp_check_ts", "fp_lock"})
              => (now[t] - last_index_load_ts) < INDEX_TTL_SECONDS
        /\ (pc[t] = "fp_lock" /\ pc'[t] \notin {"fp_lock", "fp_clear_error"} /\ ~force[t])
              => (clock' - last_index_load_ts) < INDEX_TTL_SECONDS
        /\ (pc[t] = "c_check_ts" /\ pc'[t] \notin {"c_check_ts", "c_lock"})
              => (now[t] - centros_last_load_ts) < CENTROS_TTL_SECONDS
        /\ (pc[t] = "c_lock" /\ pc'[t] \notin {"c_lock", "c_clear_error"})
              => (clock' - centros_last_load_ts) < CENTROS_TTL_SECONDS

C4_TTLCorrectness == []C4_NoLoadWithinTTL /\ [][C4_LoadAfterTTL]_vars

\* ------------------------------------------------------------------
\* C5.  A forced refresh performs exactly one load, performs it holding
\* the index's lock, and the handler reports the cardinalities, source
\* and error that this load produced (pend[t] is what it published).
\* ------------------------------------------------------------------
DebugReport(p) ==
    [NoResp EXCEPT !.status = 200,
                   !.pairs = Cardinality(DOMAIN p.index),
                   !.cycles = Cardinality(DOMAIN p.any),
                   !.count = Len(p.mun),
                   !.source = p.source,
                   !.error = p.error]

C5_ForcedRefreshReportsItsLoad ==
    \A t \in Threads :
        /\ pc[t] \in FPLoadPcs => fp_index_lock = t
        /\ (pc[t] = "done" /\ op[t] = "debug")
              => /\ loads[t] = 1
                 /\ resp[t] = DebugReport(pend[t])

\* ------------------------------------------------------------------
\* resolveCities as a function: the index is the one a load has built
\* from some rows, and _find_cities_for_cycle is applied to it once
\* ------------------------------------------------------------------
sEle == <<"E","l","e">>
sAdmQuery == <<" ","A","D","M"," ">>
sOtro == <<"o","t","r","o">>
sMedioQuery == <<"M">>
sDesconocido == <<"q">>

ResolveRows == {FPRow(c, g, m) : c \in {<<>>, sAdm, sEle},
                                 g \in {<<>>, sMedio, sSup},
                                 m \in {<<>>, sAlc, sBen}}

RECURSIVE SeqsUpTo(_, _)
SeqsUpTo(S, n) == IF n = 0 THEN {<<>>}
                  ELSE LET shorter == SeqsUpTo(S, n - 1)
                       IN  shorter \cup {Append(q, x) : q \in shorter, x \in S}

QueryCiclos == {<<>>, sAdmQuery, sOtro}
QueryGrados == {<<>>, sMedioQuery, sDesconocido}

CycleNames == {Norm(sAdm), Norm(sEle)}
GradoNames == {<<>>, Norm(sMedio), Norm(sSup)}

\* the scores the library can give for one call of the resolver
Oracles(rf) ==
    IF rf
    THEN [rankC : [CycleNames -> RawScores], repC : {0},
          rankG : [GradoNames -> RawScores], repG : {0}, first : BOOLEAN]
    ELSE [rankC : [CycleNames -> RawScores], repC : RawScores,
          rankG : [GradoNames -> RawScores], repG : RawScores, first : {FALSE}]

InitResolve ==
    /\ clock = StartTime
    /\ ticks = 0
    /\ reqs = 0
    /\ \E rows \in SeqsUpTo(ResolveRows, MaxRows) :
        /\ cycle_city_index = BuildCycleCityIndex(rows)
        /\ cycle_anygrade_index = BuildAnygradeIndex(rows)
        /\ municipios_all = BuildMunicipios(rows)
    /\ last_index_load_ts = StartTime
    /\ last_index_source = GVA_FP_CSV_URL_2025
    /\ last_index_error = NoError
    /\ fp_index_lock = Free
    /\ centros_by_localidad = <<>>
    /\ centros_last_load_ts = 0
    /\ centros_last_source = ""
    /\ centros_last_error = NoError
    /\ centros_lock = Free
    /\ InitThreads
    /\ rapidfuzz \in BOOLEAN
    /\ call = NoCall
    /\ snap = [fp |-> SharedFP, centros |-> SharedCentros,
               seen |-> [t \in Threads |-> {}],
               fresh |-> [t \in Threads |-> FALSE]]

ResolveCities ==
    /\ call = NoCall
    /\ \E ciclo \in QueryCiclos, grado \in QueryGrados, o \in Oracles(rapidfuzz) :
        call' = [fn |-> "find_cities_for_cycle", ciclo |-> ciclo, grado |-> grado,
                 o |-> o,
                 out |-> find_cities_for_cycle(cycle_city_index, cycle_anygrade_index,
                                               rapidfuzz, ciclo, grado, o)]
    /\ UNCHANGED <<envvars, fpvars, cvars, lockvars, rapidfuzz, thvars, snap>>

NextResolve == ResolveCities

SpecResolve == InitResolve /\ [][NextResolve]_vars

\* ------------------------------------------------------------------
\* The resolver's call, as the claims speak of it
\* ------------------------------------------------------------------
Resolved == call.fn = "find_cities_for_cycle"
QCiclo == Norm(call.ciclo)
QGrado == Norm(call.grado)

MaxOf(S) == CHOOSE x \in S : \A y \in S : y <= x

\* the score of the best fuzzy match of the cycle query, 0 when there is
\* nothing to match
BestCycleScore ==
    IF QCiclo = <<>> \/ DOMAIN cycle_anygrade_index = {} THEN 0
    ELSE IF rapidfuzz
    THEN MaxOf({call.o.rankC[k] \div 100 : k \in DOMAIN cycle_anygrade_index})
    ELSE call.o.repC \div 100

GradosOf(c) == {k[2] : k \in {kk \in DOMAIN cycle_city_index : kk[1] = c}}

\* the score of the best fuzzy match of the grade query among the grades
\* of cycle c
BestGradoScore(c) ==
    IF GradosOf(c) = {} THEN 0
    ELSE IF rapidfuzz THEN MaxOf({call.o.rankG[g] \div 100 : g \in GradosOf(c)})
    ELSE call.o.repG \div 100

IsSortedSet(q, S) ==
    /\ Range(q) = S
    /\ Len(q) = Cardinality(S)
    /\ \A i, j \in 1..Len(q) : i < j => StrLess(q[i], q[j])

\* ------------------------------------------------------------------
\* C6.  If the normalized cycle and grade are both non-empty and the
\* pair is a key of the cycle/grade index, the resolver returns that
\* key's municipalities, sorted, matched cycle and grade equal to the
\* query and both scores 100, whatever the fuzzy scores are.
\* ------------------------------------------------------------------
C6_ExactTierPrecedence ==
    (/\ Resolved
     /\ QCiclo # <<>> /\ QGrado # <<>>
     /\ <<QCiclo, QGrado>> \in DOMAIN cycle_city_index)
    => /\ IsSortedSet(call.out.cities, cycle_city_index[<<QCiclo, QGrado>>])
       /\ call.out.info.matched_ciclo = QCiclo
       /\ call.out.info.matched_grado = QGrado
       /\ call.out.info.match_score = 100
       /\ call.out.info.grado_score = 100

\* an exact hit while another cycle of the index has the top fuzzy score
C6_Witness ==
    /\ Resolved
    /\ QCiclo # <<>> /\ QGrado # <<>>
    /\ <<QCiclo, QGrado>> \in DOMAIN cycle_city_index
    /\ \E k \in DOMAIN cycle_anygrade_index :
          k # QCiclo /\ call.o.rankC[k] > call.o.rankC[QCiclo]
    /\ call.out.info.grado_score = 100

\* ------------------------------------------------------------------
\* C7.  When the normalized cycle query is no key of the index, the
\* result is empty if the best fuzzy cycle score is 54 or lower (or
\* there is no match) and non-empty if it is 55 or higher.
\* ------------------------------------------------------------------
C7_CycleThreshold ==
    (Resolved /\ QCiclo \notin DOMAIN cycle_anygrade_index)
    => /\ BestCycleScore <= 54 => call.out.cities = <<>>
       /\ BestCycleScore >= 55 => call.out.cities # <<>>

\* a query that is no key, scored exactly 55, with a non-empty result
C7_Witness ==
    /\ Resolved
    /\ QCiclo \notin DOMAIN cycle_anygrade_index
    /\ BestCycleScore = 55
    /\ call.out.cities # <<>>

\* ------------------------------------------------------------------
\* C8.  When the cycle query is resolved (exactly, or fuzzily with a
\* score of 55 or more) and the supplied grade cannot be resolved to a
\* pair of the index, the resolver returns the any-grade set of the
\* matched cycle, which is not empty.
\* ------------------------------------------------------------------
CycleExact == QCiclo \in DOMAIN cycle_anygrade_index
CycleFuzzy == ~CycleExact /\ BestCycleScore >= 55
MatchedCycle == IF CycleExact THEN QCiclo ELSE call.out.info.matched_ciclo

GradoUnresolved ==
    /\ QGrado # <<>>
    /\ <<MatchedCycle, QGrado>> \notin DOMAIN cycle_city_index
    /\ \/ GradosOf(MatchedCycle) = {}
       \/ BestGradoScore(MatchedCycle) < 55
       \/ (CycleFuzzy /\ call.out.info.matched_grado = <<>>)

C8_GradeFallback ==
    (Resolved /\ (CycleExact \/ CycleFuzzy) /\ GradoUnresolved)
    => /\ MatchedCycle \in DOMAIN cycle_anygrade_index
       /\ IsSortedSet(call.out.cities, cycle_anygrade_index[MatchedCycle])
       /\ Range(call.out.cities) =
             UNION {cycle_city_index[<<MatchedCycle, g>>] : g \in GradosOf(MatchedCycle)}
       /\ call.out.cities # <<>>

\* a fuzzily matched cycle taught at two grades, the grade query scoring
\* 54 at best: the municipalities of both grades come back
C8_Witness ==
    /\ Resolved /\ CycleFuzzy /\ GradoUnresolved
    /\ Cardinality(GradosOf(MatchedCycle)) = 2
    /\ BestGradoScore(MatchedCycle) = 54
    /\ Len(call.out.cities) = 2

\* ------------------------------------------------------------------
\* resolveCenters as a function: the centre index is the one a load has
\* built from some rows, and the query part of centros() is applied to
\* it once
\* ------------------------------------------------------------------
sBar == <<"b","a","r">>
sCentroFP == <<"C","e","n","t","r","o"," ","F","P">>
sAlcQuery == <<" ","A","L","C"," ">>
sOne == <<"1">>
sTwo == <<"2">>
sAbc == <<"a","b","c">>

CentrosRows == {CRow(den, gen, loc) : den \in {sCol, sBar, sIesX, sCipfpY},
                                      gen \in {<<>>, sCentroFP},
                                      loc \in {<<>>, sAlc}}

QueryMunicipios == {sAlcQuery, sBen}
QueryLimits == {<<>>, sOne, sTwo, sAbc, <<"0">>, <<"-","3">>, <<"1","0","1">>,
                <<"1","_","0">>, <<"2",".","0">>}
QueryOnlyFP == {<<"0">>, sOne}

InitCentrosQuery ==
    /\ clock = StartTime
    /\ ticks = 0
    /\ reqs = 0
    /\ cycle_city_index = <<>>
    /\ cycle_anygrade_index = <<>>
    /\ municipios_all = <<>>
    /\ last_index_load_ts = 0
    /\ last_index_source = ""
    /\ last_index_error = NoError
    /\ fp_index_lock = Free
    /\ centros_by_localidad = <<>>
    /\ centros_last_load_ts = 0
    /\ centros_last_source = ""
    /\ centros_last_error = NoError
    /\ centros_lock = Free
    /\ InitThreads
    /\ rapidfuzz = TRUE
    /\ call = NoCall
    /\ snap = [fp |-> SharedFP, centros |-> SharedCentros,
               seen |-> [t \in Threads |-> {}],
               fresh |-> [t \in Threads |-> FALSE]]

\* a successful first load of _load_centros_index, with nobody else
\* running: lines 501-571 in one step
LoadCentros ==
    /\ centros_last_load_ts = 0
    /\ call = NoCall
    /\ \E rows \in SeqsUpTo(CentrosRows, MaxRows) :
          centros_by_localidad' = BuildCentros(rows)
    /\ centros_last_load_ts' = clock
    /\ centros_last_source' = GVA_CENTROS_CSV_URL
    /\ centros_last_error' = NoError
    /\ UNCHANGED <<envvars, fpvars, lockvars, rapidfuzz, thvars, call, snap>>

\* lines 703-705 and 716-737 of centros(): lim is the local of line 728,
\* count the len(out) of line 735
QueryCentros ==
    /\ centros_last_load_ts # 0
    /\ call = NoCall
    /\ \E municipio \in QueryMunicipios, limit \in QueryLimits, only_fp \in QueryOnlyFP :
        call' = [fn |-> "centros", municipio |-> municipio, limit |-> limit,
                 only_fp |-> only_fp,
                 lim |-> Lim(Strip(limit)),
                 out |-> centros_out(centros_by_localidad, Strip(municipio),
                                     Strip(limit), Strip(only_fp)),
                 count |-> Len(centros_out(centros_by_localidad, Strip(municipio),
                                           Strip(limit), Strip(only_fp)))]
    /\ UNCHANGED <<envvars, fpvars, cvars, lockvars, rapidfuzz, thvars, snap>>

NextCentrosQuery == LoadCentros \/ QueryCentros

SpecCentrosQuery == InitCentrosQuery /\ [][NextCentrosQuery]_vars

\* the heuristic score of a centre record, over its name and type text
RecordScore(r) ==
    LET hay == StrUpper(JoinSp(<<r.tipo, r.nombre>>))
    IN  (IF Contains(hay, sCIPFP) \/ Contains(hay, sCENTRE_INTEGRAT)
            \/ Contains(hay, sCENTRO_INTEGRADO) THEN 50 ELSE 0)
      + (IF Contains(hay, sFORMACION_acc) \/ Contains(hay, sFORMACION) THEN 35 ELSE 0)
      + (IF Contains(hay, sFP) THEN 10 ELSE 0)
      + (IF Contains(hay, sIES) \/ Contains(hay, sINSTITUTO) THEN 6 ELSE 0)

\* ------------------------------------------------------------------
\* C9.  In every published centre index each municipality's list is in
\* descending order of the records' heuristic score, and records of
\* equal score are in ascending order of their lower-cased names.
\* ------------------------------------------------------------------
C9_CentrosOrdered ==
    \A k \in DOMAIN centros_by_localidad :
        LET arr == centros_by_localidad[k]
        IN  \A i, j \in 1..Len(arr) :
                i < j => /\ RecordScore(arr[i]) >= RecordScore(arr[j])
                         /\ RecordScore(arr[i]) = RecordScore(arr[j])
                               => StrLeq(StrLower(arr[i].nombre), StrLower(arr[j].nombre))

\* ------------------------------------------------------------------
\* C10.  With only_fp set to "1" the query returns, up to the limit and
\* in index order, exactly the records of the municipality whose
\* heuristic score is 10 or more.
\* ------------------------------------------------------------------
LikelyFP(r) == RecordScore(r) >= 10

C10_OnlyLikelyFP ==
    (call.fn = "centros" /\ Strip(call.only_fp) = sOne)
    => LET key == Norm(Strip(call.municipio))
           items == IF key \in DOMAIN centros_by_localidad
                    THEN centros_by_localidad[key] ELSE <<>>
           kept == SelectSeq(items, LikelyFP)
       IN  /\ Len(call.out) = Min(Lim(Strip(call.limit)), Len(kept))
           /\ \A i \in 1..Len(call.out) : call.out[i] = kept[i]

\* ------------------------------------------------------------------
\* C11.  A refresh whose downloaded CSV lacks exactly one required
\* column ends with an error that names exactly that column as missing
\* and with empty index collections, whatever was published before.
\* ------------------------------------------------------------------
LacksOneColumn(needed, fields) == Cardinality(needed \ fields) = 1

C11_Completes(t) ==
    /\ (pc[t] = "fp_pub_error" /\ pc'[t] # "fp_pub_error"
        /\ LacksOneColumn({"NOM_CICLO", "NOM_MUN", "NOM_GRADO"}, pend[t].fields))
       => /\ last_index_error'.msg # ""
          /\ last_index_error'.missing =
                {"NOM_CICLO", "NOM_MUN", "NOM_GRADO"} \ pend[t].fields
          /\ DOMAIN cycle_city_index' = {}
          /\ DOMAIN cycle_anygrade_index' = {}
          /\ municipios_all' = <<>>
    /\ (pc[t] = "c_pub_error" /\ pc'[t] # "c_pub_error"
        /\ LacksOneColumn({"denominacion", "direccion", "localidad"}, pend[t].fields))
       => /\ centros_last_error'.msg # ""
          /\ centros_last_error'.missing =
                {"denominacion", "direccion", "localidad"} \ pend[t].fields
          /\ DOMAIN centros_by_localidad' = {}

C13_Leaves(t) ==
    /\ (pc[t] \in FPLoadPcs /\ pc'[t] \notin FPLoadPcs)
       => /\ pc'[t] \in {"m_error", "d_pairs"}
          /\ pend[t].error.msg # ""
                => /\ DOMAIN cycle_city_index' = {}
                   /\ DOMAIN cycle_anygrade_index' = {}
                   /\ last_index_error'.msg # ""
                   /\ last_index_load_ts' = now[t]
    /\ (pc[t] \in CentrosLoadPcs /\ pc'[t] \notin CentrosLoadPcs)
       => /\ pc'[t] = "z_error"
          /\ pend[t].error.msg # ""
                => /\ DOMAIN centros_by_localidad' = {}
                   /\ centros_last_error'.msg # ""
                   /\ centros_last_load_ts' = now[t]

C13_FailuresCaptured == [][\A t \in Threads : C13_Leaves(t)]_vars

\* ------------------------------------------------------------------
\* GET /api/ciudades: ciudades() and _find_cities_for_cycle, every read
\* of a module global a step of its own.  resp[t].match is the info
\* dict and resp[t].items the list of cities.
\* ------------------------------------------------------------------
sAdn == <<"a","d","n">>

CiudadesQueries == { [ciclo |-> sAdmQuery, grado |-> sMedioQuery],
                     [ciclo |-> sAdn, grado |-> sMedioQuery],
                     [ciclo |-> sAdn, grado |-> sDesconocido] }

\* what token_set_ratio gives for the strings of the model, in
\* hundredths: 100 for equal strings, 66.66 for "adn" against "adm"
\* (two of three characters in place), 0 for strings without a common
\* character
Similarity(q, c) == IF q = c THEN 10000
                    ELSE IF q = sAdn /\ c = Norm(sAdm) THEN 6666
                    ELSE 0

LibOracle(ciclo_n, grado_n) ==
    [rankC |-> [k \in CycleNames |-> Similarity(ciclo_n, k)], repC |-> 0,
     rankG |-> [g \in GradoNames |-> Similarity(grado_n, g)], repG |-> 0,
     first |-> TRUE]

\* lines 634-640 of ciudades(), 377-378 of _find_cities_for_cycle and
\* 265-266 of _load_gva_fp_index(force=False)
StartCiudades(t) ==
    \E q \in CiudadesQueries :
        /\ Begin(t, "ciudades",
                 [NoArgs EXCEPT !.ciclo = Strip(q.ciclo), !.grado = Strip(q.grado)],
                 FALSE, FPDeltas)
        /\ sawNone' = [sawNone EXCEPT ![t] = (last_index_load_ts = 0)]
        /\ pc' = [pc EXCEPT ![t] =
                    IF DOMAIN cycle_city_index # {}
                    THEN "fp_check_ts" ELSE "fp_lock"]

CicloN(t) == Norm(args[t].ciclo)
GradoN(t) == Norm(args[t].grado)

\* return cities, info
FindReturns(t, from, cities, info) ==
    Reads(t, from, "h_source", [resp[t] EXCEPT !.items = cities, !.match = info])

\* a step of _find_cities_for_cycle that goes on, with info as it stands
FindGoes(t, from, to, info) ==
    Reads(t, from, to, [resp[t] EXCEPT !.match = info])

\* after the test of line 390
AfterEmptyTest(t) == IF CicloN(t) # <<>> /\ GradoN(t) # <<>> THEN "f_exact"
                     ELSE IF CicloN(t) # <<>> THEN "f_anyg" ELSE "f_bc0"

\* lines 382-390: info is created; not _cycle_city_index
FindIdx(t) ==
    FindGoes(t, "f_idx",
             IF DOMAIN cycle_city_index = {} THEN "f_any0" ELSE AfterEmptyTest(t),
             Info(rapidfuzz, <<>>, 0, <<>>, 0))

\* lines 390-391: and not _cycle_anygrade_index
FindAny0(t) ==
    /\ pc[t] = "f_any0"
    /\ IF DOMAIN cycle_anygrade_index = {}
       THEN FindReturns(t, "f_any0", <<>>, resp[t].match)
       ELSE FindGoes(t, "f_any0", AfterEmptyTest(t), resp[t].match)

\* lines 394-400
FindExact(t) ==
    /\ pc[t] = "f_exact"
    /\ LET exact == ExactLookup(cycle_city_index, CicloN(t), GradoN(t))
       IN  IF exact # {}
           THEN FindReturns(t, "f_exact", SortedStrs(exact),
                            Info(rapidfuzz, CicloN(t), 100, GradoN(t), 100))
           ELSE FindGoes(t, "f_exact", "f_anyg", resp[t].match)

\* lines 403-407
FindAnyg(t) ==
    /\ pc[t] = "f_anyg"
    /\ LET anyg == Get(cycle_anygrade_index, CicloN(t), {})
       IN  IF anyg # {}
           THEN FindReturns(t, "f_anyg", SortedStrs(anyg),
                            Info(rapidfuzz, CicloN(t), 100, <<>>, 0))
           ELSE FindGoes(t, "f_anyg", "f_bc0", resp[t].match)

\* line 360 of _best_cycle_match: not ciclo_n or not _cycle_anygrade_index;
\* then lines 410-414
FindBc0(t) ==
    /\ pc[t] = "f_bc0"
    /\ IF CicloN(t) = <<>> \/ DOMAIN cycle_anygrade_index = {}
       THEN FindReturns(t, "f_bc0", <<>>, Info(rapidfuzz, <<>>, 0, <<>>, 0))
       ELSE FindGoes(t, "f_bc0", "f_bc", resp[t].match)

\* line 362: list(_cycle_anygrade_index.keys()), the match of lines
\* 363-365, then lines 410-416
FindBc(t) ==
    /\ pc[t] = "f_bc"
    /\ LET bc == IF rapidfuzz
                 THEN best_match_with_rapidfuzz(DOMAIN cycle_anygrade_index,
                          LibOracle(CicloN(t), GradoN(t)).rankC, TRUE)
                 ELSE best_match_with_difflib(DOMAIN cycle_anygrade_index,
                          LibOracle(CicloN(t), GradoN(t)).rankC,
                          LibOracle(CicloN(t), GradoN(t)).repC)
           info == Info(rapidfuzz, bc[1], bc[2], <<>>, 0)
       IN  IF CycleRejected(bc[1], bc[2])
           THEN FindReturns(t, "f_bc", <<>>, info)
           ELSE FindGoes(t, "f_bc", IF GradoN(t) # <<>> THEN "f_grados" ELSE "f_cany", info)

\* lines 417-427: the grades paired with the matched cycle are read off
\* _cycle_city_index.keys() and matched
FindGrados(t) ==
    /\ pc[t] = "f_grados"
    /\ LET mc == resp[t].match.matched_ciclo
           grados_posibles == {k[2] : k \in {kk \in DOMAIN cycle_city_index : kk[1] = mc}}
           bg == best_grado_match(rapidfuzz, GradoN(t), grados_posibles,
                                  LibOracle(CicloN(t), GradoN(t)))
       IN  IF grados_posibles = {}
           THEN FindGoes(t, "f_grados", "f_cany", resp[t].match)
           ELSE FindGoes(t, "f_grados",
                         IF GradoAccepted(bg[1], bg[2]) THEN "f_cities" ELSE "f_cany",
                         [resp[t].match EXCEPT !.matched_grado = bg[1],
                                               !.grado_score = bg[2]])

\* lines 428-430
FindCities(t) ==
    /\ pc[t] = "f_cities"
    /\ LET cities == Get(cycle_city_index,
                         <<resp[t].match.matched_ciclo, resp[t].match.matched_grado>>, {})
       IN  IF cities # {}
           THEN FindReturns(t, "f_cities", SortedStrs(cities), resp[t].match)
           ELSE FindGoes(t, "f_cities", "f_cany", resp[t].match)

\* lines 432-433
FindCany(t) ==
    FindReturns(t, "f_cany",
                SortedStrs(CitiesAny(cycle_anygrade_index, resp[t].match.matched_ciclo)),
                resp[t].match)

\* ciudades(), line 643: if _last_index_source
CiudadesIfSource(t) ==
    Reads(t, "h_source", IF last_index_source # "" THEN "h_source2" ELSE "h_warning",
          resp[t])

\* ciudades(), line 644
CiudadesSource(t) ==
    Reads(t, "h_source2", "h_warning", [resp[t] EXCEPT !.source = last_index_source])

\* ciudades(), line 645: if _last_index_error; without one, lines 648-659
CiudadesIfWarning(t) ==
    /\ pc[t] = "h_warning"
    /\ IF Truthy(last_index_error)
       THEN Reads(t, "h_warning", "h_warning2", resp[t])
       ELSE Reads(t, "h_warning", "done",
                  [resp[t] EXCEPT !.status = 200, !.count = Len(resp[t].items)])

\* ciudades(), lines 646-659
CiudadesWarning(t) ==
    Reads(t, "h_warning2", "done",
          [resp[t] EXCEPT !.error = last_index_error, !.status = 200,
                          !.count = Len(resp[t].items)])

\* one worker serves /api/ciudades while the other serves the forced
\* refreshes of /api/ciudades/debug
Resolver == "t1"
Refresher == "t2"

NextCiudades ==
    \E t \in Threads :
        \/ (t = Resolver /\ StartCiudades(t))
        \/ (t = Refresher /\ StartDebug(t))
        \/ Return(t)
        \/ FpCheckTs(t) \/ FpLock(t)
        \/ FpClearError(t) \/ FpClearSource(t)
        \/ FpDownload2025(t) \/ FpDownload2024(t) \/ FpParseRaises(t)
        \/ FpPubIndex(t) \/ FpPubAny(t) \/ FpPubMun(t)
        \/ FpPubTs(t) \/ FpPubSource(t) \/ FpPubError(t)
        \/ FindIdx(t) \/ FindAny0(t) \/ FindExact(t) \/ FindAnyg(t)
        \/ FindBc0(t) \/ FindBc(t) \/ FindGrados(t) \/ FindCities(t) \/ FindCany(t)
        \/ CiudadesIfSource(t) \/ CiudadesSource(t)
        \/ CiudadesIfWarning(t) \/ CiudadesWarning(t)
        \/ DebugPairs(t) \/ DebugCycles(t) \/ DebugCount(t)
        \/ DebugSource(t) \/ DebugError(t)

SpecCiudades == Init /\ [][NextCiudades]_vars

\* ------------------------------------------------------------------
\* C12.  A resolution request (cities or centres) answered while the
\* last completed load of its index is a failed one gets status 200, an
\* empty result and, as warning, the error of that load; this also when
\* another thread is refreshing the index.
\* ------------------------------------------------------------------
C12_Answers(t) ==
    /\ (op[t] = "ciudades" /\ pc[t] # "done" /\ pc'[t] = "done"
        /\ snap.fp.error.msg # "")
       => /\ resp'[t].status = 200
          /\ resp'[t].items = <<>>
          /\ resp'[t].error = snap.fp.error
    /\ (op[t] = "centros" /\ pc[t] # "done" /\ pc'[t] = "done"
        /\ snap.centros.error.msg # "")
       => /\ resp'[t].status = 200
          /\ resp'[t].items = <<>>
          /\ resp'[t].error = snap.centros.error

C12_WarningNotError == [][\A t \in Threads : C12_Answers(t)]_vars

\* ------------------------------------------------------------------
\* C18.  What a call of _find_cities_for_cycle returns is what the tier
\* algorithm yields on one pair of cycle tables (by cycle and grade, by
\* cycle alone) built by one load, a load whose tables were in place or
\* being put in place at some point of the call.
\* ------------------------------------------------------------------
FindPcs == {"f_idx", "f_any0", "f_exact", "f_anyg", "f_bc0", "f_bc",
            "f_grados", "f_cities", "f_cany"}

C18_Returns(t) ==
    (op[t] = "ciudades" /\ pc[t] \in FindPcs /\ pc'[t] \notin FindPcs)
    => \E S \in snap.seen[t] :
          [cities |-> resp'[t].items, info |-> resp'[t].match]
             = find_cities_for_cycle(S.index, S.any, rapidfuzz,
                                     args[t].ciclo, args[t].grado,
                                     LibOracle(Norm(args[t].ciclo), Norm(args[t].grado)))

C18_OneSnapshotPerCall == [][\A t \in Threads : C18_Returns(t)]_vars

C20_Step(t) ==
    /\ (pc[t] = "fp_clear_source" /\ pc'[t] # pc[t])
       => pc'[t] = "fp_download_2025"
    /\ (pc'[t] = "fp_download_2024" /\ pc[t] # pc'[t])
       => pc[t] = "fp_download_2025"
    /\ (pc[t] = "fp_download_2025" /\ pc'[t] = "fp_pub_index")
       => \E p \in FPPayloads : pend'[t] = FPBuilt(p, GVA_FP_CSV_URL_2025)
    /\ (pc[t] = "fp_download_2024" /\ pc'[t] = "fp_pub_index"
        /\ pend'[t].error # FPDownloadError)
       => \E p \in FPPayloads : pend'[t] = FPBuilt(p, GVA_FP_CSV_URL_2024)
    /\ (pc[t] = "fp_pub_error" /\ pc'[t] # pc[t])
       => /\ last_index_source' = pend[t].source
          /\ cycle_city_index' = pend[t].index
          /\ cycle_anygrade_index' = pend[t].any
          /\ municipios_all' = pend[t].mun

C20_SourceOrder == [][\A t \in Threads : C20_Step(t)]_vars

C20_Witness ==
    \E t \in Threads :
        /\ pc[t] = "d_pairs"
        /\ loads[t] = 1
        /\ pend[t].source = GVA_FP_CSV_URL_2024
        /\ last_index_source = GVA_FP_CSV_URL_2024
        /\ DOMAIN cycle_city_index # {}
        /\ cycle_city_index = pend[t].index

\* ------------------------------------------------------------------
\* C15.  In every state of the shared cycle index, every municipality
\* of a set of _cycle_city_index or of _cycle_anygrade_index is in
\* _municipios_all; and a row with a municipality and an empty cycle
\* name adds its municipality to the list and nothing to the two tables.
\* ------------------------------------------------------------------
Listed(m, list) == \E i \in DOMAIN list : list[i] = m

C15_RowWithoutCycle ==
    LET base == <<FPRow(sAdm, sMedio, sAlc)>>
        with == Append(base, FPRow(<<>>, sMedio, sBen))
    IN  /\ BuildCycleCityIndex(with) = BuildCycleCityIndex(base)
        /\ BuildAnygradeIndex(with) = BuildAnygradeIndex(base)
        /\ Listed(sBen, BuildMunicipios(with))

C15_MunicipalitiesListed ==
    /\ \A k \in DOMAIN cycle_city_index :
          \A m \in cycle_city_index[k] : Listed(m, municipios_all)
    /\ \A k \in DOMAIN cycle_anygrade_index :
          \A m \in cycle_anygrade_index[k] : Listed(m, municipios_all)
    /\ C15_RowWithoutCycle

\* ------------------------------------------------------------------
\* C16.  The centre query returns the first min(L, n) records of the
\* municipality's list (filtered when only_fp is "1"), n being that
\* list's length and L the requested limit brought into 1..100, or 25
\* when the limit is absent or no integer; count is the number of
\* records returned.
\* ------------------------------------------------------------------
RequestedLimit(limit) ==
    IF limit = <<>> \/ ~IntParses(limit) THEN 25
    ELSE IF IntOf(limit) < 1 THEN 1
    ELSE IF IntOf(limit) > 100 THEN 100
    ELSE IntOf(limit)

QueriedList(c) ==
    LET key == Norm(Strip(c.municipio))
        items == IF key \in DOMAIN centros_by_localidad
                 THEN centros_by_localidad[key] ELSE <<>>
    IN  IF Strip(c.only_fp) = sOne THEN FilterFP(items) ELSE items

C16_LimitClamp ==
    call.fn = "centros"
    => LET L == RequestedLimit(Strip(call.limit))
           list == QueriedList(call)
           n == Len(list)
       IN  /\ call.lim = L
           /\ L \in 1..100
           /\ Len(call.out) = (IF L < n THEN L ELSE n)
           /\ \A i \in 1..Len(call.out) : call.out[i] = list[i]
           /\ call.count = Len(call.out)

C16_Witness ==
    /\ call.fn = "centros"
    /\ call.limit = <<"0">>
    /\ Len(QueriedList(call)) = 2
    /\ call.lim = 1
    /\ call.count = 1
    /\ call.out = <<QueriedList(call)[1]>>

\* ------------------------------------------------------------------
\* _norm as a function: a string is drawn, _norm is applied to it, and
\* _norm is applied to the result
\* ------------------------------------------------------------------
NormChars == {" ", "\t", "a", "A", "Ó"}
NormInputs == SeqsUpTo(NormChars, MaxLen) \cup {None}

InitNorm ==
    /\ clock = StartTime
    /\ ticks = 0
    /\ reqs = 0
    /\ InitShared
    /\ InitThreads
    /\ rapidfuzz = TRUE
    /\ call \in {[fn |-> "norm_in", s |-> s] : s \in NormInputs}
    /\ snap = [fp |-> SharedFP, centros |-> SharedCentros,
               seen |-> [t \in Threads |-> {}],
               fresh |-> [t \in Threads |-> FALSE]]

\* line 76, on the drawn string
ApplyNorm ==
    /\ call.fn = "norm_in"
    /\ call' = [fn |-> "norm", s |-> call.s, out |-> Norm(call.s)]
    /\ UNCHANGED <<envvars, fpvars, cvars, lockvars, rapidfuzz, thvars, snap>>

\* line 76, on what it returned
ApplyNormAgain ==
    /\ call.fn = "norm"
    /\ call' = [fn |-> "norm_norm", s |-> call.s, out |-> call.out,
                again |-> Norm(call.out)]
    /\ UNCHANGED <<envvars, fpvars, cvars, lockvars, rapidfuzz, thvars, snap>>

NextNorm == ApplyNorm \/ ApplyNormAgain

SpecNorm == InitNorm /\ [][NextNorm]_vars

\* ------------------------------------------------------------------
\* C17.  _norm is idempotent: applied to its own result it returns that
\* result, for every input string.
\* ------------------------------------------------------------------
C17_NormIdempotent ==
    call.fn = "norm_norm" => call.again = call.out

C17_Witness ==
    /\ call.fn = "norm_norm"
    /\ call.s = <<"\t", "A", " ", "\t", "Ó">>
    /\ call.out = <<"a", " ", "ó">>
    /\ call.again = call.out

\* ------------------------------------------------------------------
\* The two indices side by side: the threads serve requests of
\* /api/municipios and of /api/centros that arrive within one second
\* (the clock does not advance)
\* ------------------------------------------------------------------
InitBoth ==
    /\ clock = StartTime
    /\ ticks = MaxTicks
    /\ reqs = 0
    /\ InitShared
    /\ InitThreads
    /\ rapidfuzz = TRUE
    /\ call = NoCall
    /\ snap = [fp |-> SharedFP, centros |-> SharedCentros,
               seen |-> [t \in Threads |-> {}],
               fresh |-> [t \in Threads |-> FALSE]]

FPStep(t) ==
    \/ FpCheckTs(t) \/ FpLock(t)
    \/ FpClearError(t) \/ FpClearSource(t)
    \/ FpDownload2025(t) \/ FpDownload2024(t) \/ FpParseRaises(t)
    \/ FpPubIndex(t) \/ FpPubAny(t) \/ FpPubMun(t)
    \/ FpPubTs(t) \/ FpPubSource(t) \/ FpPubError(t)

CentrosStep(t) ==
    \/ CCheckTs(t) \/ CLock(t)
    \/ CClearError(t) \/ CClearSource(t) \/ CDownload(t) \/ CParseRaises(t)
    \/ CPubIndex(t) \/ CPubTs(t) \/ CPubError(t)

NextBoth ==
    \E t \in Threads :
        \/ StartMunicipios(t) \/ StartCentros(t) \/ Return(t)
        \/ FPStep(t)
        \/ CentrosStep(t)
        \/ MunIfError(t) \/ MunError(t) \/ MunCount(t) \/ MunList(t) \/ MunSource(t)
        \/ CentrosIfError(t) \/ CentrosError(t) \/ CentrosItems(t) \/ CentrosSource(t)

SpecBoth == InitBoth /\ [][NextBoth]_vars

\* ------------------------------------------------------------------
\* C14.  The two indices are independent: no thread holds one refresh
\* lock while it holds or waits for the other; a thread inside
\* _load_centros_index can take its next step whatever the state of the
\* cycle index's lock and refresh, and the other way round; and a step
\* of one loader leaves the other index's state and lock unchanged.
\* ------------------------------------------------------------------
FPLoaderPcs == FPLoadPcs \cup {"fp_check_ts", "fp_lock"}
CentrosLoaderPcs == CentrosLoadPcs \cup {"c_check_ts", "c_lock"}

C14_OneLockPerThread ==
    \A t \in Threads :
        /\ ~(fp_index_lock = t /\ centros_lock = t)
        /\ ~(fp_index_lock = t /\ pc[t] = "c_lock")
        /\ ~(centros_lock = t /\ pc[t] = "fp_lock")

\* the steps of a thread that wait for nothing but, at the lock, for the
\* index's own lock: the tests, the lock, the writes of the section and
\* the handler's reads of the globals (the download waits for the
\* network; the step of lines 716-730 has the guard of the other reads)
CentrosAccess(t) ==
    \/ CCheckTs(t) \/ CLock(t)
    \/ CClearError(t) \/ CClearSource(t)
    \/ CPubIndex(t) \/ CPubTs(t) \/ CPubError(t)
    \/ CentrosIfError(t) \/ CentrosError(t) \/ CentrosSource(t)

FPAccess(t) ==
    \/ FpCheckTs(t) \/ FpLock(t)
    \/ FpClearError(t) \/ FpClearSource(t)
    \/ FpPubIndex(t) \/ FpPubAny(t) \/ FpPubMun(t)
    \/ FpPubTs(t) \/ FpPubSource(t) \/ FpPubError(t)
    \/ MunIfError(t) \/ MunError(t) \/ MunCount(t) \/ MunList(t) \/ MunSource(t)

CentrosAccessPcs == (CentrosLoaderPcs \cup CentrosReadPcs) \ {"c_download", "z_items"}
FPAccessPcs == (FPLoaderPcs \cup {"m_error", "m_error2", "m_count", "m_list", "m_source"})
               \ {"fp_download_2025", "fp_download_2024"}

C14_NotBlocked ==
    \A t \in Threads :
        /\ (pc[t] \in CentrosAccessPcs /\ (pc[t] = "c_lock" => centros_lock = Free))
           => ENABLED CentrosAccess(t)
        /\ (pc[t] \in FPAccessPcs /\ (pc[t] = "fp_lock" => fp_index_lock = Free))
           => ENABLED FPAccess(t)

C14_Step(t) ==
    /\ (pc[t] \in FPLoaderPcs /\ pc'[t] # pc[t])
       => UNCHANGED <<cvars, centros_lock>>
    /\ (pc[t] \in CentrosLoaderPcs /\ pc'[t] # pc[t])
       => UNCHANGED <<fpvars, fp_index_lock>>

C14_IndicesIndependent ==
    /\ [](C14_OneLockPerThread /\ C14_NotBlocked)
    /\ [][\A t \in Threads : C14_Step(t)]_vars

C14_Witness ==
    \E t, u \in Threads :
        /\ fp_index_lock = t
        /\ pc[t] = "fp_download_2025"
        /\ centros_lock = u
        /\ pc[u] = "c_download"
        /\ t # u

\* ------------------------------------------------------------------
\* Requests on a cycle index that an earlier request has loaded: the
\* process has served one /api/municipios at StartTime, with a payload
\* that has rows
\* ------------------------------------------------------------------
InitLoaded ==
    /\ clock = StartTime
    /\ ticks = 0
    /\ reqs = 0
    /\ \E p \in {q \in FPPayloads : FPNeeded \subseteq q.fields /\ q.rows # <<>>} :
        /\ cycle_city_index = BuildCycleCityIndex(p.rows)
        /\ cycle_anygrade_index = BuildAnygradeIndex(p.rows)
        /\ municipios_all = BuildMunicipios(p.rows)
    /\ last_index_load_ts = StartTime
    /\ last_index_source = GVA_FP_CSV_URL_2025
    /\ last_index_error = NoError
    /\ fp_index_lock = Free
    /\ centros_by_localidad = <<>>
    /\ centros_last_load_ts = 0
    /\ centros_last_source = ""
    /\ centros_last_error = NoError
    /\ centros_lock = Free
    /\ InitThreads
    /\ rapidfuzz = TRUE
    /\ call = NoCall
    /\ snap = [fp |-> SharedFP, centros |-> SharedCentros,
               seen |-> [t \in Threads |-> {}],
               fresh |-> [t \in Threads |-> FALSE]]

SpecLoaded == InitLoaded /\ [][Next]_vars

\* ------------------------------------------------------------------
\* C21.  A non-forced request returns from the loader without loading
\* only if the published index was non-empty and younger than the TTL,
\* when the request began or when it decided; and it starts a load only
\* if the published index is empty or as old as the TTL.
\* ------------------------------------------------------------------
C21_Decides(t) ==
    /\ (~force[t] /\ pc[t] \in {"fp_check_ts", "fp_lock"}
        /\ pc'[t] \notin ({"fp_check_ts", "fp_lock"} \cup FPLoadPcs))
       => \/ snap.fresh[t]
          \/ /\ DOMAIN cycle_city_index # {}
             /\ ((IF pc[t] = "fp_lock" THEN clock' ELSE now[t]) - last_index_load_ts)
                   < INDEX_TTL_SECONDS
    /\ (~force[t] /\ pc[t] = "fp_lock" /\ pc'[t] = "fp_clear_error")
       => \/ DOMAIN cycle_city_index = {}
          \/ (clock' - last_index_load_ts) >= INDEX_TTL_SECONDS
    /\ (~force[t] /\ pc[t] \in {"c_check_ts", "c_lock"}
        /\ pc'[t] \notin ({"c_check_ts", "c_lock"} \cup CentrosLoadPcs))
       => \/ snap.fresh[t]
          \/ /\ DOMAIN centros_by_localidad # {}
             /\ ((IF pc[t] = "c_lock" THEN clock' ELSE now[t]) - centros_last_load_ts)
                   < CENTROS_TTL_SECONDS
    /\ (~force[t] /\ pc[t] = "c_lock" /\ pc'[t] = "c_clear_error")
       => \/ DOMAIN centros_by_localidad = {}
          \/ (clock' - centros_last_load_ts) >= CENTROS_TTL_SECONDS

C21_FreshnessDecision == [][\A t \in Threads : C21_Decides(t)]_vars

\* ------------------------------------------------------------------
\* One refresh of the cycle index with nobody else running, on any
\* payload of up to MaxRows rows: lines 274-337 in one step
\* ------------------------------------------------------------------
BuildPayloads ==
    {[fields |-> f, rows |-> rows] :
        f \in {FPNeeded, FPNeeded \ {"NOM_GRADO"}},
        rows \in SeqsUpTo(ResolveRows, MaxRows)}

Publish(b) ==
    /\ cycle_city_index' = b.index
    /\ cycle_anygrade_index' = b.any
    /\ municipios_all' = b.mun
    /\ last_index_load_ts' = clock
    /\ last_index_source' = b.source
    /\ last_index_error' = b.error
    /\ UNCHANGED <<envvars, cvars, lockvars, rapidfuzz, thvars, snap>>

\* a candidate delivered a payload: lines 287-337
LoadFP ==
    /\ call = NoCall
    /\ \E p \in BuildPayloads, url \in {GVA_FP_CSV_URL_2025, GVA_FP_CSV_URL_2024} :
        /\ Publish(FPBuilt(p, url))
        /\ call' = [fn |-> "load_gva_fp_index", rows |-> p.rows]

\* no candidate delivered: lines 278-285
LoadFPFails ==
    /\ call = NoCall
    /\ Publish(FPFailed)
    /\ call' = [fn |-> "load_gva_fp_index", rows |-> <<>>]

NextBuild == LoadFP \/ LoadFPFails

SpecBuild == Init /\ [][NextBuild]_vars

\* ------------------------------------------------------------------
\* C22.  After a completed refresh of the cycle index, the keys of
\* _cycle_anygrade_index are the cycle names of the keys of
\* _cycle_city_index, each of its sets is the union of the sets of that
\* cycle over all grades, and no set of either table is empty.
\* ------------------------------------------------------------------
Coherent(index, any) ==
    /\ DOMAIN any = {k[1] : k \in DOMAIN index}
    /\ \A c \in DOMAIN any :
          any[c] = UNION {index[k] : k \in {kk \in DOMAIN index : kk[1] = c}}
    /\ \A k \in DOMAIN index : index[k] # {}
    /\ \A c \in DOMAIN any : any[c] # {}

C22_TablesCoherent ==
    call.fn = "load_gva_fp_index"
    => Coherent(cycle_city_index, cycle_anygrade_index)

C22_Witness ==
    /\ call.fn = "load_gva_fp_index"
    /\ <<Norm(sAdm), <<>>>> \in DOMAIN cycle_city_index
    /\ <<Norm(sAdm), Norm(sMedio)>> \in DOMAIN cycle_city_index
    /\ cycle_city_index[<<Norm(sAdm), <<>>>>] = {sAlc}
    /\ cycle_anygrade_index[Norm(sAdm)] = {sAlc, sBen}

\* the same at the last step of a refresh among concurrent requests
C22_Completes(t) ==
    (pc[t] = "fp_pub_error" /\ pc'[t] # pc[t])
    => Coherent(cycle_city_index', cycle_anygrade_index')

C22_AtCompletion == [][\A t \in Threads : C22_Completes(t)]_vars

\* ------------------------------------------------------------------
\* Fair scheduling of the two loaders: a thread inside a loader whose
\* next statement can run (a waiter at `with lock:` can run once the
\* lock is free) is eventually scheduled, and a download in progress
\* ends (requests.get has timeout=10/15: it delivers or raises).
\* Nothing obliges a request to arrive, or a response to be collected.
\* ------------------------------------------------------------------
Fairness ==
    \A t \in Threads : WF_vars(FPStep(t)) /\ WF_vars(CentrosStep(t))

\* the loader calls alone: a handler whose loader call has returned
\* stays where it is, and one whose call raised has answered 500
NextLoaders ==
    \E t \in Threads :
        \/ StartMunicipios(t) \/ StartCentros(t) \/ Return(t)
        \/ FPStep(t)
        \/ CentrosStep(t)

SpecLoaders == InitBoth /\ [][NextLoaders]_vars /\ Fairness

\* ------------------------------------------------------------------
\* C23.  Every call of a loader returns: a thread that is inside
\* _load_gva_fp_index or _load_centros_index (at a freshness test,
\* waiting for the lock, or refreshing) eventually leaves it, and a
\* lock that is held is eventually free again.
\* ------------------------------------------------------------------
C23_LoaderReturns ==
    /\ \A t \in Threads :
          (pc[t] \in FPLoaderPcs \cup CentrosLoaderPcs)
              ~> (pc[t] \notin FPLoaderPcs \cup CentrosLoaderPcs)
    /\ (fp_index_lock # Free) ~> (fp_index_lock = Free)
    /\ (centros_lock # Free) ~> (centros_lock = Free)

\* a caller waits at the lock while the other thread is refreshing
C23_Witness ==
    \E t, u \in Threads :
        /\ t # u
        /\ pc[t] = "fp_lock"
        /\ fp_index_lock = u
        /\ pc[u] \in FPLoadPcs

====
